---- MODULE Spec2Model ----
\* Verification model of the code-watcher dependency tracker:
\*   cache_manager.py  (line snapshots, graph store, ordered propagation)
\*   analyzer.py       (symbol extraction, added/deleted classification)
\*   main.py           (handle_change processing cycle)
\*
\* A qualified name "m.f.x" is modelled as the tuple <<"m", "f", "x">> of its
\* dot-separated components, so name.split(".") is the tuple itself.
EXTENDS Integers, Sequences, FiniteSets, TLC

VARIABLES
    \* ---- CacheManager.get_ordered_recursive_affected ----
    graph,          \* the graph returned by load_graph() at line 126
    changed_vars,   \* argument: seed variables
    changed_funcs,  \* argument: seed functions
    seeds_left,     \* seeds the for-loops of lines 163-166 have not reached yet
    stack,          \* activation records of visit_var / visit_func
    visited_vars,
    visited_funcs,
    ordered_vars,
    ordered_funcs,
    ppc,            \* "vars" (loop 163-164), "funcs" (loop 165-166), "done"
    run,            \* how many times the call was made on the same inputs
    prev_result,    \* the sets of names returned by the previous call on these inputs
    \* ---- files, the two stores and main.handle_change ----
    fs,             \* the watched files: path -> [exists, lines]
    line_cache,     \* CacheManager.line_cache, as saved to line_cache.json
    store,          \* graph_cache.json: path -> symbol table
    pending,        \* paths with a change event delivered and not yet handled
    hpc,            \* position of handle_change ("idle" between calls)
    hpath,          \* its file_path argument
    h,              \* its local variables
    writes,         \* saves and deletions made by the editor so far
    clean,          \* every save so far was handled to completion before the next
    \* ---- the store files, concurrent handlers, the watcher ----
    disk,           \* graph_cache.json and line_cache.json: name -> [exists, text]
    wr,             \* the CacheManager store operation in progress
    thr,            \* handle_change calls running in parallel: caller -> locals
    watch,          \* ChangeHandler: clock, last_called, notifications, the file
    \* ---- the collapsed expansions of analyzer.py, loop by loop ----
    exp             \* the locals of the expansion in progress

propVars == <<graph, changed_vars, changed_funcs, seeds_left, stack,
              visited_vars, visited_funcs, ordered_vars, ordered_funcs,
              ppc, run, prev_result>>

cycleVars == <<fs, line_cache, store, pending, hpc, hpath, h, writes, clean>>

ioVars == <<disk, wr, thr, watch, exp>>

vars == <<propVars, cycleVars, ioVars>>

\* ------------------------------------------------------------------
\* Helpers on sequences and names
\* ------------------------------------------------------------------
Range(s) == {s[i] : i \in 1..Len(s)}

\* a list.reverse() that leaves the list as it was
NotReversed(s) == s

\* list.reverse(), lines 168-169
Reverse(s) == [i \in 1..Len(s) |-> s[Len(s) + 1 - i]]

NoDuplicates(s) == \A i, j \in 1..Len(s) : i # j => s[i] # s[j]

\* Position of x in s (0 when absent)
IndexOf(s, x) == IF x \in Range(s) THEN CHOOSE i \in 1..Len(s) : s[i] = x ELSE 0

\* name.split(".")[-1]
Bare(name) == name[Len(name)]

\* ------------------------------------------------------------------
\* Order of strings and of qualified names (for sorted())
\* ------------------------------------------------------------------
\* the identifiers of the model, in string order
IdOrder == <<"a", "b", "c", "f", "g", "k", "len", "m", "meth", "o", "p", "q", "x", "y", "z">>

IdRank(id) == CHOOSE i \in 1..Len(IdOrder) : IdOrder[i] = id

\* n1 < n2 as dotted strings: '.' sorts before every identifier character, so
\* the comparison is componentwise, a proper prefix first
RECURSIVE NameLess(_, _)
NameLess(n1, n2) ==
    IF n1 = <<>> THEN n2 # <<>>
    ELSE IF n2 = <<>> THEN FALSE
    ELSE IF n1[1] = n2[1] THEN NameLess(Tail(n1), Tail(n2))
    ELSE IdRank(n1[1]) < IdRank(n2[1])

\* sorted(set of names)
RECURSIVE SortNames(_)
SortNames(S) ==
    IF S = {} THEN <<>>
    ELSE LET least == CHOOSE n \in S : \A o \in S \ {n} : NameLess(n, o)
         IN <<least>> \o SortNames(S \ {least})

\* ------------------------------------------------------------------
\* Source text: a file is a sequence of lines, a line an indentation depth
\* and a statement (its text without surrounding whitespace)
\* ------------------------------------------------------------------
BuiltinNames == {"len"}         \* dir(builtins), as far as the model's identifiers go
Literals == {"1", "2"}          \* call arguments that are not plain identifiers

Blank ==
    [k |-> "blank", txt |-> "", name |-> "", args |-> <<>>, kwonly |-> <<>>,
     targets |-> <<>>, form |-> "", ids |-> {}, func |-> "", cargs |-> <<>>]

\* "def name(args, *, kwonly):"
Def(txt, name, args, kwonly) ==
    [Blank EXCEPT !.k = "def", !.txt = txt, !.name = name, !.args = args, !.kwonly = kwonly]

\* "class name:"
Class(txt, name) == [Blank EXCEPT !.k = "class", !.txt = txt, !.name = name]

\* "t1 = t2 = <expression over the plain identifiers ids>"
AssignExpr(txt, targets, ids) ==
    [Blank EXCEPT !.k = "assign", !.txt = txt, !.targets = targets, !.form = "expr", !.ids = ids]

\* "t = func(cargs)"
AssignCall(txt, targets, func, cargs) ==
    [Blank EXCEPT !.k = "assign", !.txt = txt, !.targets = targets, !.form = "call",
                  !.func = func, !.cargs = cargs]

\* "t = obj.attr(cargs)": ids holds obj
AssignMethod(txt, targets, obj, attr, cargs) ==
    [Blank EXCEPT !.k = "assign", !.txt = txt, !.targets = targets, !.form = "method",
                  !.ids = {obj}, !.func = attr, !.cargs = cargs]

\* "return <expression over the plain identifiers ids>"
ReturnStmt(txt, ids) == [Blank EXCEPT !.k = "return", !.txt = txt, !.form = "expr", !.ids = ids]

\* "return func(cargs)"
ReturnCall(txt, func, cargs) ==
    [Blank EXCEPT !.k = "return", !.txt = txt, !.form = "call", !.func = func, !.cargs = cargs]

Line(ind, st) == [ind |-> ind, st |-> st]

\* str.strip() of a raw line
strip(line) == line.st.txt

\* all sequences over S of length at most n
SeqsUpTo(S, n) == UNION {[1..k -> S] : k \in 0..n}

\* ------------------------------------------------------------------
\* ast.parse: the statements of a block at one indentation depth
\* ------------------------------------------------------------------
ParseError == [ok |-> FALSE, nodes |-> <<>>, next |-> 0]

\* the first line at or after i that is not blank
RECURSIVE SkipBlank(_, _)
SkipBlank(lines, i) ==
    IF i <= Len(lines) /\ lines[i].st.k = "blank" THEN SkipBlank(lines, i + 1) ELSE i

\* the block whose lines are indented by depth, inside blocks indented by the
\* members of outer; the first line of a body sets the body's indentation
RECURSIVE ParseBlock(_, _, _, _)
ParseBlock(lines, i, depth, outer) ==
    IF i > Len(lines) THEN [ok |-> TRUE, nodes |-> <<>>, next |-> i]
    ELSE IF lines[i].st.k = "blank" THEN ParseBlock(lines, i + 1, depth, outer)
    ELSE IF lines[i].ind < depth
    THEN IF lines[i].ind \in outer
         THEN [ok |-> TRUE, nodes |-> <<>>, next |-> i]
         ELSE ParseError                               \* unindent matches no outer level
    ELSE IF lines[i].ind > depth THEN ParseError       \* unexpected indent
    ELSE IF lines[i].st.k \in {"def", "class"}
    THEN LET first == SkipBlank(lines, i + 1)
         IN IF first > Len(lines) \/ lines[first].ind <= depth
            THEN ParseError                            \* expected an indented block
            ELSE LET body == ParseBlock(lines, first, lines[first].ind, outer \cup {depth})
                 IN IF ~body.ok THEN ParseError
                    ELSE LET rest == ParseBlock(lines, body.next, depth, outer)
                         IN IF ~rest.ok THEN ParseError
                            ELSE [ok |-> TRUE,
                                  nodes |-> <<[st |-> lines[i].st, body |-> body.nodes]>>
                                            \o rest.nodes,
                                  next |-> rest.next]
    ELSE LET rest == ParseBlock(lines, i + 1, depth, outer)
         IN IF ~rest.ok THEN ParseError
            ELSE [ok |-> TRUE,
                  nodes |-> <<[st |-> lines[i].st, body |-> <<>>]>> \o rest.nodes,
                  next |-> rest.next]

\* ast.parse(code): the module's body, or a failure
Parse(lines) == ParseBlock(lines, 1, 0, {})

\* ------------------------------------------------------------------
\* analyzer.build_full_graph_for_file: the Analyzer node visitor
\* ------------------------------------------------------------------
\* a dict with one more item (an existing key is overwritten)
Put(map, key, val) == [k \in DOMAIN map \cup {key} |-> IF k = key THEN val ELSE map[k]]

EmptyMap == [n \in {} |-> <<>>]

\* graph = {"variables": {}, "functions": {}}, line 35
EmptyTable == [variables |-> EmptyMap, functions |-> EmptyMap]

IsIdent(arg) == arg \notin Literals

\* the ids of the ast.Name nodes of one statement
StmtNames(st) ==
    IF st.k \notin {"assign", "return"} THEN {}
    ELSE {st.targets[i] : i \in 1..Len(st.targets)}
         \cup st.ids
         \cup (IF st.form = "call" THEN {st.func} ELSE {})
         \cup {st.cargs[i] : i \in {j \in 1..Len(st.cargs) : IsIdent(st.cargs[j])}}

\* the ids of the ast.Name nodes ast.walk(node) yields
RECURSIVE WalkNames(_)
WalkNames(node) ==
    StmtNames(node.st) \cup UNION {WalkNames(node.body[i]) : i \in 1..Len(node.body)}

\* Analyzer.qualify, lines 58-60
qualify(file_name, current_class, current_func, name) ==
    <<file_name>> \o current_class \o current_func \o <<name>>

\* param_names = [a.arg for a in node.args.args], line 75
ParamNames(st) == st.args

\* deps of visit_FunctionDef, lines 78-88; funcs already holds the function's name
FunctionDeps(file_name, current_class, funcs, node) ==
    {qualify(file_name, current_class, funcs, id) : id \in WalkNames(node) \ BuiltinNames}
    \cup {qualify(file_name, current_class, funcs, ParamNames(node.st)[i]) :
              i \in 1..Len(ParamNames(node.st))}

\* lines 121-128: every parameter of every known function whose name ends with
\* ".func_name" gets arg_name appended to its variables entry
LinkParams(variables, func_params, func_name, arg_name) ==
    LET known == {fn \in DOMAIN func_params : Bare(fn) = func_name}
        keys == UNION {{fn \o <<func_params[fn][i]>> : i \in 1..Len(func_params[fn])} :
                          fn \in known}
    IN [k \in DOMAIN variables \cup keys |->
            IF k \in keys
            THEN [depends_on |-> Append(IF k \in DOMAIN variables
                                        THEN variables[k].depends_on ELSE <<>>, arg_name)]
            ELSE variables[k]]

\* lines 115-128, over the call's arguments from position i on
RECURSIVE LinkArgs(_, _, _, _, _, _, _, _)
LinkArgs(variables, func_params, file_name, current_class, current_func, func_name, cargs, i) ==
    IF i > Len(cargs) THEN variables
    ELSE LinkArgs(IF IsIdent(cargs[i])
                  THEN LinkParams(variables, func_params, func_name,
                                  qualify(file_name, current_class, current_func, cargs[i]))
                  ELSE variables,
                  func_params, file_name, current_class, current_func, func_name, cargs, i + 1)

\* depends_on of lines 104-136 for one target
AssignDeps(file_name, current_class, current_func, st) ==
    CASE st.form = "call" ->
            {qualify(file_name, current_class, current_func, st.func)}
            \cup {qualify(file_name, current_class, current_func, st.cargs[i]) :
                     i \in {j \in 1..Len(st.cargs) : IsIdent(st.cargs[j])}}
      [] st.form = "method" -> {<<st.func>>}
      [] OTHER -> {qualify(file_name, current_class, current_func, id) : id \in st.ids}

\* Analyzer.visit_Assign, lines 97-142, over the targets from position i on
RECURSIVE VisitAssign(_, _, _, _, _, _)
VisitAssign(A, file_name, current_class, current_func, st, i) ==
    IF i > Len(st.targets) THEN A
    ELSE LET linked == IF st.form = "call"
                       THEN LinkArgs(A.graph.variables, A.func_params, file_name,
                                     current_class, current_func, st.func, st.cargs, 1)
                       ELSE A.graph.variables
             scoped_name == qualify(file_name, current_class, current_func, st.targets[i])
             entry == [depends_on |->
                          SortNames(AssignDeps(file_name, current_class, current_func, st))]
         IN VisitAssign([A EXCEPT !.graph.variables = Put(linked, scoped_name, entry)],
                        file_name, current_class, current_func, st, i + 1)

\* NodeVisitor.visit over the statements of a body, from position i on:
\* visit_ClassDef (65-68), visit_FunctionDef (70-92), visit_Assign (97-142)
RECURSIVE VisitBody(_, _, _, _, _, _)
VisitBody(A, file_name, current_class, current_func, body, i) ==
    IF i > Len(body) THEN A
    ELSE LET node == body[i]
             after ==
               CASE node.st.k = "class" ->
                      VisitBody(A, file_name, Append(current_class, node.st.name),
                                current_func, node.body, 1)
                 [] node.st.k = "def" ->
                      LET funcs == Append(current_func, node.st.name)
                          q_name == qualify(file_name, current_class, funcs, node.st.name)
                          deps == FunctionDeps(file_name, current_class, funcs, node)
                      IN VisitBody([graph |-> [A.graph EXCEPT !.functions =
                                                  Put(@, q_name, [depends_on |-> SortNames(deps)])],
                                    func_params |-> Put(A.func_params, q_name, ParamNames(node.st))],
                                   file_name, current_class, funcs, node.body, 1)
                 [] OTHER ->
                      VisitAssign(A, file_name, current_class, current_func, node.st, 1)
         IN VisitBody(after, file_name, current_class, current_func, body, i + 1)

\* os.path.splitext(os.path.basename(file_path))[0], line 39
FileName(path) ==
    CASE path \in {"m.py", "pkg/m.py"} -> "m" [] path = "n.py" -> "n" [] OTHER -> "a"

\* build_full_graph_for_file(file_path), lines 26-146, on a file that exists
\* with the given lines or does not exist
BuildFullGraph(path, file) ==
    IF ~file.exists THEN EmptyTable
    ELSE LET tree == Parse(file.lines)
         IN IF ~tree.ok THEN EmptyTable
            ELSE VisitBody([graph |-> EmptyTable, func_params |-> EmptyMap],
                           FileName(path), <<>>, <<>>, tree.nodes, 1).graph

\* ------------------------------------------------------------------
\* The statements of the model's files, and the string order of their texts
\* ------------------------------------------------------------------
StXA == AssignExpr("x = a", <<"x">>, {"a"})
StXB == AssignExpr("x = b", <<"x">>, {"b"})
StYX == AssignExpr("y = x", <<"y">>, {"x"})
StXY == AssignExpr("x = y", <<"x">>, {"y"})
StDefFPQ == Def("def f(p, q):", "f", <<"p", "q">>, <<>>)
StYFXA == AssignCall("y = f(x, a)", <<"y">>, "f", <<"x", "a">>)
StYF2A == AssignCall("y = f(2, a)", <<"y">>, "f", <<"2", "a">>)
StYFX == AssignCall("y = f(x)", <<"y">>, "f", <<"x">>)
StYZFX == AssignCall("y = z = f(x)", <<"y", "z">>, "f", <<"x">>)
StDefF == Def("def f(p):", "f", <<"p">>, <<>>)
StDefFK == Def("def f(p, *, k):", "f", <<"p">>, <<"k">>)
StClassC == Class("class c:", "c")
StDefFX == Def("def f(x):", "f", <<"x">>, <<>>)
StRetX == ReturnStmt("return x + 1", {"x"})
StYF2 == AssignCall("y = f(2)", <<"y">>, "f", <<"2">>)
StDefG == Def("def g(q):", "g", <<"q">>, <<>>)
StDefLen == Def("def len(p):", "len", <<"p">>, <<>>)
StRetLen == ReturnCall("return len(q)", "len", <<"q">>)

\* the non-blank texts, as Python orders strings
TextOrder ==
    <<"class c:", "def f(p):", "def f(p, *, k):", "def f(p, q):", "def f(x):", "def g(q):",
      "def len(p):", "p = x", "return len(q)", "return x + 1", "x = a", "x = b", "x = y",
      "y = f(2)", "y = f(2, a)", "y = f(x)", "y = f(x, a)", "y = x",
      "y = z = f(x)">>

TextRank(t) == CHOOSE i \in 1..Len(TextOrder) : TextOrder[i] = t

RECURSIVE InsertText(_, _)
InsertText(sorted, t) ==
    IF sorted = <<>> THEN <<t>>
    ELSE IF TextRank(t) <= TextRank(Head(sorted)) THEN <<t>> \o sorted
    ELSE <<Head(sorted)>> \o InsertText(Tail(sorted), t)

\* a sorted() that leaves the list as it was
Unsorted(texts) == texts

\* sorted(list of strings), lines 54-55 and 74
RECURSIVE SortedTexts(_)
SortedTexts(texts) ==
    IF texts = <<>> THEN <<>>
    ELSE InsertText(SortedTexts(Tail(texts)), Head(texts))

\* [line.strip() for line in lines[from-1 : to] if line.strip()]
StrippedNonBlank(lines, from, to) ==
    LET idx == SelectSeq([i \in 1..Len(lines) |-> i],
                         LAMBDA i : i >= from /\ i <= to /\ strip(lines[i]) # "")
    IN [j \in 1..Len(idx) |-> strip(lines[idx[j]])]

Min(a, b) == IF a <= b THEN a ELSE b

\* ------------------------------------------------------------------
\* CacheManager.get_changed_lines, lines 29-78, on the file as it is read and
\* the cached lines of its path
\* ------------------------------------------------------------------
GetChangedLines(file, old_lines) ==
    IF ~file.exists
    THEN [changed |-> <<>>, current_lines |-> <<>>,
          is_reorder_only |-> FALSE, reorder_scope |-> "None"]
    ELSE
    LET current_lines == file.lines
        \* lines 44-46, line numbers from 1
        changed == SelectSeq([i \in 1..Len(current_lines) |-> i],
                             LAMBDA i : \/ i > Len(old_lines)
                                        \/ strip(current_lines[i]) # strip(old_lines[i]))
        \* lines 52-60
        file_reorder ==
            /\ changed # <<>>
            /\ Len(current_lines) = Len(old_lines)
            /\ SortedTexts(StrippedNonBlank(old_lines, 1, Len(old_lines)))
                 = SortedTexts(StrippedNonBlank(current_lines, 1, Len(current_lines)))
        \* lines 63-76
        min_line == changed[1]
        max_line == changed[Len(changed)]
        local_reorder ==
            /\ changed # <<>>
            /\ ~file_reorder
            /\ SortedTexts(StrippedNonBlank(old_lines, min_line, Min(max_line, Len(old_lines))))
                 = SortedTexts(StrippedNonBlank(current_lines, min_line,
                                                Min(max_line, Len(current_lines))))
    IN [changed |-> changed, current_lines |-> current_lines,
        is_reorder_only |-> file_reorder \/ local_reorder,
        reorder_scope |-> IF file_reorder THEN "file"
                          ELSE IF local_reorder THEN "local" ELSE "None"]

\* ------------------------------------------------------------------
\* analyzer.py: added and deleted symbols, collapsed expansions
\* ------------------------------------------------------------------
\* normalize(name), lines 251-257 and 334-338
normalize(name) == IF Len(name) > 2 THEN <<name[1], name[Len(name)]>> ELSE name

\* {normalize(d) for d in info["depends_on"]}
NormalizedDeps(info) == {normalize(info.depends_on[i]) : i \in 1..Len(info.depends_on)}

\* get_added_variables, lines 298-309, given the table built at line 298
GetAddedVariables(new_graph, old_graph) ==
    [vars |-> DOMAIN new_graph.variables \ DOMAIN old_graph.variables,
     funcs |-> DOMAIN new_graph.functions \ DOMAIN old_graph.functions]

\* a difference taken the wrong way round
DeletedSwapped(new_graph, old_graph) ==
    [vars |-> DOMAIN new_graph.variables \ DOMAIN old_graph.variables,
     funcs |-> DOMAIN new_graph.functions \ DOMAIN old_graph.functions]

\* deleted_vars, deleted_funcs of lines 322-329
GetDeleted(new_graph, old_graph) ==
    [vars |-> DOMAIN old_graph.variables \ DOMAIN new_graph.variables,
     funcs |-> DOMAIN old_graph.functions \ DOMAIN new_graph.functions]

\* expand_deletion_impact, lines 352-374: passes over both tables until one
\* adds nothing
RECURSIVE expand_deletion_impact(_, _)
expand_deletion_impact(new_graph, affected_by_deletion) ==
    LET normalized_affected == {normalize(a) : a \in affected_by_deletion}
        more == {v \in DOMAIN new_graph.variables :
                    NormalizedDeps(new_graph.variables[v]) \cap normalized_affected # {}}
                \cup {f \in DOMAIN new_graph.functions :
                    NormalizedDeps(new_graph.functions[f]) \cap normalized_affected # {}}
    IN IF more \subseteq affected_by_deletion THEN affected_by_deletion
       ELSE expand_deletion_impact(new_graph, affected_by_deletion \cup more)

\* affected_by_deletion of lines 332-376
AffectedByDeletion(new_graph, deleted) ==
    LET gone == {normalize(d) : d \in deleted.vars \cup deleted.funcs}
        direct == {v \in DOMAIN new_graph.variables :
                      NormalizedDeps(new_graph.variables[v]) \cap gone # {}}
                  \cup {f \in DOMAIN new_graph.functions :
                      NormalizedDeps(new_graph.functions[f]) \cap gone # {}}
    IN expand_deletion_impact(new_graph, direct)

\* STEP 1 of analyze_file_changes, lines 228-246: symbols named on a changed line
DirectlyChanged(file_graph, lines, changed_lines) ==
    LET at == {i \in Range(changed_lines) : i <= Len(lines)}
    IN [vars |-> {v \in DOMAIN file_graph.variables :
                     \E i \in at : /\ lines[i].st.k = "assign"
                                   /\ Bare(v) = lines[i].st.targets[1]},
        funcs |-> {f \in DOMAIN file_graph.functions :
                     \E i \in at : /\ lines[i].st.k = "def"
                                   /\ Bare(f) = lines[i].st.name}]

\* expand_impacts, lines 265-285
RECURSIVE expand_impacts(_, _, _)
expand_impacts(file_graph, affected_vars, affected_funcs) ==
    LET normalized == {normalize(n) : n \in affected_vars \cup affected_funcs}
        more_vars == {v \in DOMAIN file_graph.variables :
                         NormalizedDeps(file_graph.variables[v]) \cap normalized # {}}
        more_funcs == {f \in DOMAIN file_graph.functions :
                         NormalizedDeps(file_graph.functions[f]) \cap normalized # {}}
    IN IF more_vars \subseteq affected_vars /\ more_funcs \subseteq affected_funcs
       THEN [vars |-> affected_vars, funcs |-> affected_funcs]
       ELSE expand_impacts(file_graph, affected_vars \cup more_vars,
                           affected_funcs \cup more_funcs)

\* analyze_file_changes, lines 217-287, given the table built at line 217 and
\* the lines read at lines 222-223
AnalyzeFileChanges(file_graph, lines, changed_lines) ==
    LET direct == DirectlyChanged(file_graph, lines, changed_lines)
    IN expand_impacts(file_graph, direct.vars, direct.funcs)

\* CacheManager.get_file_graph, lines 110-113, on the loaded store
get_file_graph(stored, file_path) ==
    IF file_path \in DOMAIN stored THEN stored[file_path] ELSE EmptyTable

\* self.line_cache.get(file_path, []), line 40
CachedLines(cache, file_path) ==
    IF file_path \in DOMAIN cache THEN cache[file_path] ELSE <<>>

\* ------------------------------------------------------------------
\* main.handle_change: its locals, and the states in which one of the two
\* machines of the model does not run
\* ------------------------------------------------------------------
\* the locals of handle_change before its first statement
NoLocals ==
    [old_graph |-> EmptyTable, full_project_graph |-> <<>>,
     changed_lines |-> <<>>, new_file_lines |-> <<>>,
     is_reorder_only |-> FALSE, reorder_scope |-> "None",
     added_vars |-> {}, added_funcs |-> {},
     deleted_vars |-> {}, deleted_funcs |-> {}, affected_by_deletion |-> {},
     affected_vars_del |-> {}, affected_funcs_del |-> {},
     file_graph |-> EmptyTable,
     affected_vars |-> {}, affected_funcs |-> {},
     full_graph |-> EmptyTable,
     all_affected_vars |-> {}, all_affected_funcs |-> {},
     graph |-> <<>>,
     report |-> "none",
     branch |-> "none",
     \* not a local: the path, the branch and the lines read at line 40 of the
     \* last reorder or real-edit call that returned
     last |-> [path |-> "", branch |-> "none", lines |-> <<>>]]

\* no file is watched and no handler runs
CycleParked ==
    /\ fs = <<>>
    /\ line_cache = <<>>
    /\ store = <<>>
    /\ pending = <<>>
    /\ hpc = "off"
    /\ hpath = ""
    /\ h = NoLocals
    /\ writes = 0
    /\ clean = TRUE

\* get_ordered_recursive_affected is not being called
\* no store operation, parallel handler or watcher is part of the run
StoreParked == disk = <<>> /\ wr = [pc |-> "off"]

ThreadsParked == thr = <<>>

WatchParked == watch = [pc |-> "off"]

\* no expansion is being followed loop by loop
ExpandParked == exp = [pc |-> "off"]

IoParked == StoreParked /\ ThreadsParked /\ WatchParked /\ ExpandParked

PropParked ==
    /\ graph = <<>>
    /\ changed_vars = {}
    /\ changed_funcs = {}
    /\ seeds_left = {}
    /\ stack = <<>>
    /\ visited_vars = {}
    /\ visited_funcs = {}
    /\ ordered_vars = <<>>
    /\ ordered_funcs = <<>>
    /\ ppc = "off"
    /\ run = 0
    /\ prev_result = [vars |-> {}, funcs |-> {}]

\* ------------------------------------------------------------------
\* Bounds of the propagation model
\* ------------------------------------------------------------------
MaxDeps == 2      \* total number of depends_on entries in a stored graph
MaxSeeds == 2     \* size of each seed set

Files == {"a", "b"}

\* keys a file's tables may hold (qualified by the file's own name)
VarKeys(f) == IF f = "a" THEN {<<"a", "x">>, <<"a", "y">>, <<"a", "z">>} ELSE {<<"b", "x">>}
FuncKeys(f) == IF f = "a" THEN {<<"a", "x">>, <<"a", "y">>} ELSE {}

\* names that may occur in a depends_on list of a table of the kind
DepNames(kind) ==
    IF kind = "variables" THEN {<<"a", "f", "x">>, <<"a", "y">>, <<"a", "z">>}
    ELSE {<<"a", "f", "x">>}

\* names that may be seeded (<<"c", "y">> is a key of no table)
VarSeedNames == {<<"a", "x">>, <<"a", "y">>, <<"b", "x">>, <<"c", "y">>}
FuncSeedNames == {<<"a", "x">>, <<"a", "y">>}

\* a table of one kind: qualified name -> {"depends_on": [...]}; an entry with
\* an empty depends_on is never matched by the walk, exactly like a missing one
KindTables(kind, keys) ==
    [keys -> {[depends_on |-> SortNames(D)] : D \in SUBSET DepNames(kind)}]

FileTables(f) ==
    [variables : KindTables("variables", VarKeys(f)),
     functions : KindTables("functions", FuncKeys(f))]

TableDeps(t) ==
    LET Sum[S \in SUBSET DOMAIN t] ==
            IF S = {} THEN 0
            ELSE LET k == CHOOSE k \in S : TRUE
                 IN Len(t[k].depends_on) + Sum[S \ {k}]
    IN Sum[DOMAIN t]

GraphDeps(g) ==
    LET Sum[S \in SUBSET DOMAIN g] ==
            IF S = {} THEN 0
            ELSE LET f == CHOOSE f \in S : TRUE
                 IN TableDeps(g[f].variables) + TableDeps(g[f].functions) + Sum[S \ {f}]
    IN Sum[DOMAIN g]

\* the stored graphs of the model: file -> table, at most MaxDeps dependencies
Graphs ==
    {g \in {[f \in Files |-> IF f = "a" THEN ta ELSE tb] :
                ta \in FileTables("a"), tb \in FileTables("b")} :
        GraphDeps(g) <= MaxDeps}

\* ------------------------------------------------------------------
\* CacheManager.get_ordered_recursive_affected
\* ------------------------------------------------------------------
\* matching on the whole qualified name instead of its last component
matchesQualified(dep, target) == dep = target

\* matches(dep, target), lines 130-132
matches(dep, target) == Bare(dep) = Bare(target)

\* a walk that follows the tables of both kinds
DependentsAnyKind(g, kind, sym) ==
    {n \in UNION {DOMAIN g[f][k] : f \in DOMAIN g, k \in {"variables", "functions"}} :
        \E f \in DOMAIN g, k \in {"variables", "functions"} :
            /\ n \in DOMAIN g[f][k]
            /\ \E i \in 1..Len(g[f][k][n].depends_on) :
                  Bare(g[f][k][n].depends_on[i]) = Bare(sym)}

\* The names visit_var / visit_func (kind = "variables" / "functions") calls
\* itself on while visiting sym: lines 140-144 and 154-158.
Dependents(g, kind, sym) ==
    {n \in UNION {DOMAIN g[f][kind] : f \in DOMAIN g} :
        \E f \in DOMAIN g :
            /\ n \in DOMAIN g[f][kind]
            /\ \E i \in 1..Len(g[f][kind][n].depends_on) :
                  matches(g[f][kind][n].depends_on[i], sym)}

Visited(kind) == IF kind = "variables" THEN visited_vars ELSE visited_funcs

\* a visit without memoization
NeverVisited(kind, sym) == FALSE

\* the guard of lines 135-136 / 149-150
AlreadyVisited(kind, sym) == sym \in Visited(kind)

\* a loop that ends after its first call
LoopBreaks(todo, n) == {}

\* the call returns to the loop of lines 140-144 / 154-158, which goes on with
\* the entries it has not reached yet
LoopContinues(todo, n) == todo \ {n}

\* lines 137 / 151, then the activation record whose loop is about to start
Enter(callers, kind, sym) ==
    /\ visited_vars' = IF kind = "variables" THEN visited_vars \cup {sym} ELSE visited_vars
    /\ visited_funcs' = IF kind = "functions" THEN visited_funcs \cup {sym} ELSE visited_funcs
    /\ stack' = Append(callers, [kind |-> kind, sym |-> sym,
                                 todo |-> Dependents(graph, kind, sym)])

\* the for-loops of lines 163-166 call visit on the next seed
SeedCall ==
    /\ ppc \in {"vars", "funcs"}
    /\ stack = <<>>
    /\ LET kind == IF ppc = "vars" THEN "variables" ELSE "functions"
       IN \E s \in seeds_left :
            /\ seeds_left' = seeds_left \ {s}
            /\ IF AlreadyVisited(kind, s)
               THEN UNCHANGED <<stack, visited_vars, visited_funcs>>
               ELSE Enter(stack, kind, s)
    /\ UNCHANGED <<graph, changed_vars, changed_funcs, ordered_vars, ordered_funcs,
                   ppc, run, prev_result>>
    /\ UNCHANGED <<cycleVars, ioVars>>

\* the loop body of lines 140-144 / 154-158 calls visit on a dependent
DepCall ==
    /\ stack # <<>>
    /\ LET top == stack[Len(stack)]
       IN \E n \in top.todo :
            LET rest == [stack EXCEPT ![Len(stack)].todo = LoopContinues(top.todo, n)]
            IN IF AlreadyVisited(top.kind, n)
               THEN /\ stack' = rest
                    /\ UNCHANGED <<visited_vars, visited_funcs>>
               ELSE Enter(rest, top.kind, n)
    /\ UNCHANGED <<graph, changed_vars, changed_funcs, seeds_left, ordered_vars,
                   ordered_funcs, ppc, run, prev_result>>
    /\ UNCHANGED <<cycleVars, ioVars>>

\* lines 146 / 160: the loop is over, append and return
Return ==
    /\ stack # <<>>
    /\ LET top == stack[Len(stack)]
       IN /\ top.todo = {}
          /\ ordered_vars' = IF top.kind = "variables"
                             THEN Append(ordered_vars, top.sym) ELSE ordered_vars
          /\ ordered_funcs' = IF top.kind = "functions"
                              THEN Append(ordered_funcs, top.sym) ELSE ordered_funcs
          /\ stack' = SubSeq(stack, 1, Len(stack) - 1)
    /\ UNCHANGED <<graph, changed_vars, changed_funcs, seeds_left, visited_vars,
                   visited_funcs, ppc, run, prev_result>>
    /\ UNCHANGED <<cycleVars, ioVars>>

\* line 165: the variable seeds are exhausted, the function seeds start
StartFuncs ==
    /\ ppc = "vars"
    /\ stack = <<>>
    /\ seeds_left = {}
    /\ ppc' = "funcs"
    /\ seeds_left' = changed_funcs
    /\ UNCHANGED <<graph, changed_vars, changed_funcs, stack, visited_vars,
                   visited_funcs, ordered_vars, ordered_funcs, run, prev_result>>
    /\ UNCHANGED <<cycleVars, ioVars>>

\* lines 168-170
Finish ==
    /\ ppc = "funcs"
    /\ stack = <<>>
    /\ seeds_left = {}
    /\ ordered_vars' = Reverse(ordered_vars)
    /\ ordered_funcs' = Reverse(ordered_funcs)
    /\ ppc' = "done"
    /\ UNCHANGED <<graph, changed_vars, changed_funcs, seeds_left, stack,
                   visited_vars, visited_funcs, run, prev_result>>
    /\ UNCHANGED <<cycleVars, ioVars>>

\* a second call on the same stored graph and the same seeds (lines 126-128)
CallAgain ==
    /\ ppc = "done"
    /\ run = 1
    /\ run' = 2
    /\ prev_result' = [vars |-> Range(ordered_vars), funcs |-> Range(ordered_funcs)]
    /\ ordered_vars' = <<>>
    /\ ordered_funcs' = <<>>
    /\ visited_vars' = {}
    /\ visited_funcs' = {}
    /\ stack' = <<>>
    /\ seeds_left' = changed_vars
    /\ ppc' = "vars"
    /\ UNCHANGED <<graph, changed_vars, changed_funcs>>
    /\ UNCHANGED <<cycleVars, ioVars>>

InitProp ==
    /\ graph \in Graphs
    /\ changed_vars \in {S \in SUBSET VarSeedNames : Cardinality(S) <= MaxSeeds}
    /\ changed_funcs \in {S \in SUBSET FuncSeedNames : Cardinality(S) <= MaxSeeds}
    /\ seeds_left = changed_vars
    /\ stack = <<>>
    /\ visited_vars = {}
    /\ visited_funcs = {}
    /\ ordered_vars = <<>>
    /\ ordered_funcs = <<>>
    /\ ppc = "vars"
    /\ run = 1
    /\ prev_result = [vars |-> {}, funcs |-> {}]
    /\ CycleParked
    /\ IoParked

NextProp == SeedCall \/ DepCall \/ Return \/ StartFuncs \/ Finish \/ CallAgain

SpecProp == InitProp /\ [][NextProp]_vars

\* ------------------------------------------------------------------
\* Properties of get_ordered_recursive_affected
\* ------------------------------------------------------------------
KeysOf(g, kind) == UNION {DOMAIN g[f][kind] : f \in DOMAIN g}

DepsOf(g, kind, n) ==
    UNION {Range(g[f][kind][n].depends_on) : f \in {fl \in DOMAIN g : n \in DOMAIN g[fl][kind]}}

PropDone == ppc = "done"

\* every name a visit can be called on
Callable(kind) ==
    KeysOf(graph, kind) \cup (IF kind = "variables" THEN changed_vars ELSE changed_funcs)

SumTodo == 
    LET Sum[i \in 0..Len(stack)] ==
            IF i = 0 THEN 0 ELSE Cardinality(stack[i].todo) + Sum[i - 1]
    IN Sum[Len(stack)]

\* A variant of the traversal: calls not yet made weigh more than anything one
\* call can add to the pending work.
Weight == Cardinality(KeysOf(graph, "variables") \cup KeysOf(graph, "functions")) + 2

Measure ==
    Weight * ( Cardinality(Callable("variables") \ visited_vars)
             + Cardinality(Callable("functions") \ visited_funcs) )
    + SumTodo + Len(stack) + Cardinality(seeds_left)
    + (CASE ppc = "vars" -> Cardinality(changed_funcs) + 2
         [] ppc = "funcs" -> 1
         [] OTHER -> 0)

\* C1: the traversal terminates on every graph (cycles and self-dependencies
\* included): while it has not returned some step is possible, every step of one
\* call strictly decreases a natural-number variant, and no symbol occurs twice
\* in either list.
C1_TerminatesVisitsOnce ==
    /\ [](/\ NoDuplicates(ordered_vars)
          /\ NoDuplicates(ordered_funcs)
          /\ Measure >= 0
          /\ (~PropDone => ENABLED (SeedCall \/ DepCall \/ Return \/ StartFuncs \/ Finish)))
    /\ [][run' = run => Measure' < Measure]_vars

\* the call has returned two variables that depend on each other
C1_Witness ==
    /\ PropDone
    /\ \E a, b \in Range(ordered_vars) :
          /\ a # b
          /\ \E d \in DepsOf(graph, "variables", a) : Bare(d) = Bare(b)
          /\ \E d \in DepsOf(graph, "variables", b) : Bare(d) = Bare(a)

\* the least set that contains the seeds and is closed under "some entry of a
\* kind table has a dependency with the final component of a member"
RECURSIVE Closure(_, _, _)
Closure(g, kind, S) ==
    LET more == {v \in KeysOf(g, kind) :
                    \E d \in DepsOf(g, kind, v) : \E x \in S : Bare(d) = Bare(x)}
    IN IF more \subseteq S THEN S ELSE Closure(g, kind, S \cup more)

\* C2: the returned variables are exactly the least set containing the seeded
\* variables and closed under bare-name dependency within the variables tables;
\* the same for functions over the functions tables.
C2_ReturnsLeastClosure ==
    PropDone =>
        /\ Range(ordered_vars) = Closure(graph, "variables", changed_vars)
        /\ Range(ordered_funcs) = Closure(graph, "functions", changed_funcs)

\* a returned variable that is no seed and is reached only through a bare-name
\* match (its dependency is not the qualified name of any returned symbol)
C2_Witness ==
    /\ PropDone
    /\ \E v \in Range(ordered_vars) \ changed_vars :
          \A d \in DepsOf(graph, "variables", v) : d \notin Range(ordered_vars)

\* C3: influence never crosses kinds: each list holds only seeds of its own
\* kind and keys of its own kind's tables reached through them, an empty seed
\* set of one kind gives an empty list of that kind, and a visit of one kind
\* leaves the other kind's visited set and list alone.
C3_NoCrossKind ==
    /\ [](/\ (changed_funcs = {} => ordered_funcs = <<>> /\ visited_funcs = {})
          /\ (changed_vars = {} => ordered_vars = <<>> /\ visited_vars = {})
          /\ visited_vars \subseteq Closure(graph, "variables", changed_vars)
          /\ visited_funcs \subseteq Closure(graph, "functions", changed_funcs)
          /\ Range(ordered_vars) \subseteq visited_vars
          /\ Range(ordered_funcs) \subseteq visited_funcs)
    /\ [][/\ (ppc = "vars" /\ ppc' = "vars" =>
                 visited_funcs' = visited_funcs /\ ordered_funcs' = ordered_funcs)
          /\ (ppc = "funcs" /\ ppc' = "funcs" =>
                 visited_vars' = visited_vars /\ ordered_vars' = ordered_vars)]_vars

\* no function is seeded, a function's dependency names a seeded variable, and
\* the call has returned
C3_Witness ==
    /\ PropDone
    /\ changed_funcs = {}
    /\ \E fn \in KeysOf(graph, "functions") : \E d \in DepsOf(graph, "functions", fn) :
          \E v \in changed_vars : Bare(d) = Bare(v)
    /\ ordered_funcs = <<>>
    /\ ordered_vars # <<>>

\* Y depends on X by bare name, both of one kind
DependsOn(kind, y, x) ==
    /\ y \in KeysOf(graph, kind)
    /\ \E d \in DepsOf(graph, kind, y) : Bare(d) = Bare(x)

\* the bare-name dependency relation among the names of S has no cycle
RECURSIVE Acyclic(_, _)
Acyclic(kind, S) ==
    \/ S = {}
    \/ \E x \in S :
          /\ \A y \in S : ~DependsOn(kind, x, y)
          /\ Acyclic(kind, S \ {x})

Ordered(kind, list) ==
    Acyclic(kind, Range(list)) =>
        \A x, y \in Range(list) :
            DependsOn(kind, y, x) => IndexOf(list, x) < IndexOf(list, y)

\* C4: root cause first, ripples last: when the bare-name dependency relation
\* among the returned symbols of a kind has no cycle, a returned symbol comes
\* before every returned symbol that depends on it, whatever the order in which
\* seeds and table entries were iterated.
C4_RootCauseFirst ==
    PropDone => Ordered("variables", ordered_vars) /\ Ordered("functions", ordered_funcs)

\* a chain of three returned variables, in dependency order
C4_Witness ==
    /\ PropDone
    /\ Len(ordered_vars) = 3
    /\ Acyclic("variables", Range(ordered_vars))
    /\ DependsOn("variables", ordered_vars[2], ordered_vars[1])
    /\ DependsOn("variables", ordered_vars[3], ordered_vars[2])

\* C5: a second call on the same stored graph and the same seeds returns the
\* same set of variables and the same set of functions as the first, whatever
\* the iteration orders of the two calls.
C5_SameSetsEveryRun ==
    (PropDone /\ run = 2) =>
        /\ Range(ordered_vars) = prev_result.vars
        /\ Range(ordered_funcs) = prev_result.funcs

\* the second call has returned, with several variables and a function, the
\* variables not in the order of their names' seeding
C5_Witness ==
    /\ PropDone
    /\ run = 2
    /\ Cardinality(prev_result.vars) >= 3
    /\ Cardinality(changed_vars) = 2
    /\ prev_result.funcs # {}
    /\ Range(ordered_vars) = prev_result.vars

\* ------------------------------------------------------------------
\* The processing cycle: watcher event -> main.handle_change, step by step,
\* with the editor saving the file at any moment
\* ------------------------------------------------------------------
MaxWrites == 2    \* saves and deletions by the editor in one behaviour
CycleLen == 2     \* lines of a watched file

Paths == {"m.py"}

CycleLines == {Line(0, StXA), Line(0, StXB), Line(0, StDefF), Line(1, StXA)}

CycleContents == SeqsUpTo(CycleLines, CycleLen)

\* the editor saves new content; the watcher queues a modification event
Save ==
    /\ writes < MaxWrites
    /\ \E p \in Paths, content \in CycleContents :
          /\ fs' = [fs EXCEPT ![p] = [exists |-> TRUE, lines |-> content]]
          /\ pending' = Append(pending, p)
    /\ writes' = writes + 1
    /\ clean' = (clean /\ hpc = "idle" /\ pending = <<>>)
    /\ UNCHANGED <<line_cache, store, hpc, hpath, h>>
    /\ UNCHANGED <<propVars, ioVars>>

\* the file is removed; no modification event follows
Delete ==
    /\ writes < MaxWrites
    /\ \E p \in Paths :
          /\ fs[p].exists
          /\ fs' = [fs EXCEPT ![p] = [exists |-> FALSE, lines |-> <<>>]]
    /\ writes' = writes + 1
    /\ clean' = FALSE
    /\ UNCHANGED <<line_cache, store, pending, hpc, hpath, h>>
    /\ UNCHANGED <<propVars, ioVars>>

\* ChangeHandler.on_modified (watcher.py 12-24) calls back; handle_change
\* lines 36-37 load the stored graph
OnModified ==
    /\ hpc = "idle"
    /\ pending # <<>>
    /\ hpath' = Head(pending)
    /\ pending' = Tail(pending)
    /\ h' = [NoLocals EXCEPT !.old_graph = get_file_graph(store, Head(pending)),
                             !.full_project_graph = store,
                             !.last = h.last]
    /\ hpc' = "lines"
    /\ UNCHANGED <<fs, line_cache, store, writes, clean>>
    /\ UNCHANGED <<propVars, ioVars>>

\* the same step had get_changed_lines no test of the path at lines 34-35: the
\* open() of line 37 raises for a file that is gone
CheckLinesWithoutExistsTest ==
    /\ hpc = "lines"
    /\ IF ~fs[hpath].exists
       THEN /\ hpc' = "raised"
            /\ UNCHANGED h
       ELSE LET r == GetChangedLines(fs[hpath], CachedLines(line_cache, hpath))
            IN /\ h' = [h EXCEPT !.changed_lines = r.changed,
                                 !.new_file_lines = r.current_lines,
                                 !.is_reorder_only = r.is_reorder_only,
                                 !.reorder_scope = r.reorder_scope,
                                 !.branch = IF r.changed = <<>> THEN "no change"
                                            ELSE IF r.is_reorder_only THEN "reorder"
                                            ELSE "edit"]
               /\ hpc' = IF r.changed = <<>> THEN "returned"
                         ELSE IF r.is_reorder_only THEN "reorder"
                         ELSE "added"
    /\ UNCHANGED <<fs, line_cache, store, pending, hpath, writes, clean>>
    /\ UNCHANGED <<propVars, ioVars>>

\* lines 40-47: the file is read and compared with its cached lines
CheckLines ==
    /\ hpc = "lines"
    /\ LET r == GetChangedLines(fs[hpath], CachedLines(line_cache, hpath))
       IN /\ h' = [h EXCEPT !.changed_lines = r.changed,
                            !.new_file_lines = r.current_lines,
                            !.is_reorder_only = r.is_reorder_only,
                            !.reorder_scope = r.reorder_scope,
                            !.branch = IF r.changed = <<>> THEN "no change"
                                       ELSE IF r.is_reorder_only THEN "reorder"
                                       ELSE "edit"]
          /\ hpc' = IF r.changed = <<>> THEN "returned"
                    ELSE IF r.is_reorder_only THEN "reorder"
                    ELSE "added"
    /\ UNCHANGED <<fs, line_cache, store, pending, hpath, writes, clean>>
    /\ UNCHANGED <<propVars, ioVars>>

\* a baseline that forgets the other files
OnlyThisBaseline(cache, file_path, new_file_lines) == [p \in {file_path} |-> new_file_lines]

\* CacheManager.update_file_baseline, lines 194-200
update_file_baseline(cache, file_path, new_file_lines) ==
    [p \in DOMAIN cache \cup {file_path} |->
        IF p = file_path THEN new_file_lines ELSE cache[p]]

\* lines 48-63: the reorder is reported and the baseline committed
ReorderCommit ==
    /\ hpc = "reorder"
    /\ line_cache' = update_file_baseline(line_cache, hpath, h.new_file_lines)
    /\ hpc' = "returned"
    /\ UNCHANGED <<fs, store, pending, hpath, h, writes, clean>>
    /\ UNCHANGED <<propVars, ioVars>>

\* line 68: get_added_variables reads the file again
AddedStep ==
    /\ hpc = "added"
    /\ LET added == GetAddedVariables(BuildFullGraph(hpath, fs[hpath]), h.old_graph)
       IN h' = [h EXCEPT !.added_vars = added.vars, !.added_funcs = added.funcs]
    /\ hpc' = "deleted"
    /\ UNCHANGED <<fs, line_cache, store, pending, hpath, writes, clean>>
    /\ UNCHANGED <<propVars, ioVars>>

\* lines 81-99: get_deleted_variables_impact reads the file again
DeletedStep ==
    /\ hpc = "deleted"
    /\ LET new_graph == BuildFullGraph(hpath, fs[hpath])
           deleted == GetDeleted(new_graph, h.old_graph)
           affected == AffectedByDeletion(new_graph, deleted)
       IN /\ h' = [h EXCEPT !.deleted_vars = deleted.vars,
                            !.deleted_funcs = deleted.funcs,
                            !.affected_by_deletion = affected]
          /\ hpc' = IF (deleted.vars # {} \/ deleted.funcs # {}) /\ affected # {}
                    THEN "classify" ELSE "analyze"
    /\ UNCHANGED <<fs, line_cache, store, pending, hpath, writes, clean>>
    /\ UNCHANGED <<propVars, ioVars>>

\* the kind given to an item of affected_by_deletion by lines 103-117; the
\* stored graph of the model holds one file
KindOfAffected(item, new_graph, full_project_graph) ==
    IF item \in DOMAIN new_graph.variables THEN "variables"
    ELSE IF item \in DOMAIN new_graph.functions THEN "functions"
    ELSE IF \E f \in DOMAIN full_project_graph :
                item \in DOMAIN full_project_graph[f].variables THEN "variables"
    ELSE IF \E f \in DOMAIN full_project_graph :
                item \in DOMAIN full_project_graph[f].functions THEN "functions"
    ELSE "none"

\* lines 99-117: the file is built once more to sort the affected items by kind
ClassifyStep ==
    /\ hpc = "classify"
    /\ LET new_graph == BuildFullGraph(hpath, fs[hpath])
           kind(item) == KindOfAffected(item, new_graph, h.full_project_graph)
       IN h' = [h EXCEPT
                  !.affected_vars_del =
                      {i \in h.affected_by_deletion : kind(i) = "variables"},
                  !.affected_funcs_del =
                      {i \in h.affected_by_deletion : kind(i) = "functions"}]
    /\ hpc' = "analyze"
    /\ UNCHANGED <<fs, line_cache, store, pending, hpath, writes, clean>>
    /\ UNCHANGED <<propVars, ioVars>>

\* line 129, analyze_file_changes line 217: the file is built
AnalyzeBuild ==
    /\ hpc = "analyze"
    /\ h' = [h EXCEPT !.file_graph = BuildFullGraph(hpath, fs[hpath])]
    /\ hpc' = "analyze2"
    /\ UNCHANGED <<fs, line_cache, store, pending, hpath, writes, clean>>
    /\ UNCHANGED <<propVars, ioVars>>

\* the same step without lines 132-133 of handle_change
AnalyzeReadUnfiltered ==
    /\ hpc = "analyze2"
    /\ IF ~fs[hpath].exists
       THEN /\ hpc' = "raised"
            /\ UNCHANGED h
       ELSE /\ LET affected == AnalyzeFileChanges(h.file_graph, fs[hpath].lines,
                                                  h.changed_lines)
               IN h' = [h EXCEPT !.affected_vars = affected.vars,
                                 !.affected_funcs = affected.funcs]
            /\ hpc' = "build"
    /\ UNCHANGED <<fs, line_cache, store, pending, hpath, writes, clean>>
    /\ UNCHANGED <<propVars, ioVars>>

\* analyze_file_changes lines 222-287: the file is opened (open() raises when it
\* is gone) and its changed lines matched; then lines 132-133 of handle_change
AnalyzeRead ==
    /\ hpc = "analyze2"
    /\ IF ~fs[hpath].exists
       THEN /\ hpc' = "raised"
            /\ UNCHANGED h
       ELSE /\ LET affected == AnalyzeFileChanges(h.file_graph, fs[hpath].lines,
                                                  h.changed_lines)
               IN h' = [h EXCEPT !.affected_vars = affected.vars \ h.added_vars,
                                 !.affected_funcs = affected.funcs \ h.added_funcs]
            /\ hpc' = "build"
    /\ UNCHANGED <<fs, line_cache, store, pending, hpath, writes, clean>>
    /\ UNCHANGED <<propVars, ioVars>>

\* lines 146-151: the table to store is built from the file as it is now
BuildStep ==
    /\ hpc = "build"
    /\ h' = [h EXCEPT
               !.full_graph = BuildFullGraph(hpath, fs[hpath]),
               !.all_affected_vars =
                   IF h.affected_by_deletion # {}
                   THEN h.affected_vars \cup h.affected_vars_del ELSE h.affected_vars,
               !.all_affected_funcs =
                   IF h.affected_by_deletion # {}
                   THEN h.affected_funcs \cup h.affected_funcs_del ELSE h.affected_funcs]
    /\ hpc' = "update"
    /\ UNCHANGED <<fs, line_cache, store, pending, hpath, writes, clean>>
    /\ UNCHANGED <<propVars, ioVars>>

OnlyThisEntry(stored, file_path, full_graph) == [p \in {file_path} |-> full_graph]

\* graph[file_path] = full_graph; save_graph(graph), lines 179-181
update_partial_graph(stored, file_path, full_graph) ==
    [p \in DOMAIN stored \cup {file_path} |->
        IF p = file_path THEN full_graph ELSE stored[p]]

\* the same step had update_partial_graph not written the store
UpdateSkipped ==
    /\ hpc = "update"
    /\ hpc' = "propagate"
    /\ UNCHANGED <<fs, line_cache, store, pending, hpath, h, writes, clean>>
    /\ UNCHANGED <<propVars, ioVars>>

\* line 154, update_partial_graph lines 179-181: the store's entry is replaced
UpdateStep ==
    /\ hpc = "update"
    /\ store' = update_partial_graph(store, hpath, h.full_graph)
    /\ hpc' = "propagate"
    /\ UNCHANGED <<fs, line_cache, pending, hpath, h, writes, clean>>
    /\ UNCHANGED <<propVars, ioVars>>

\* update_partial_graph lines 183-189: get_ordered_recursive_affected loads the
\* store (line 126) and its ordered lists are printed
PropagateStep ==
    /\ hpc = "propagate"
    /\ h' = [h EXCEPT !.graph = store]
    /\ hpc' = "report"
    /\ UNCHANGED <<fs, line_cache, store, pending, hpath, writes, clean>>
    /\ UNCHANGED <<propVars, ioVars>>

\* what lines 157-179 come to: claude_analyzer is None (line 157), the analysis
\* returns a response, it returns None, or the open of line 159 or the analysis
\* raises an Exception
ReportOutcomes == {"disabled", "response", "nothing", "raised"}

\* the same step had the exception of the analysis left handle_change
ReportUncaught ==
    /\ hpc = "report"
    /\ \E outcome \in ReportOutcomes :
          /\ h' = [h EXCEPT !.report = outcome]
          /\ hpc' = IF outcome = "raised" THEN "returned" ELSE "commit"
    /\ UNCHANGED <<fs, line_cache, store, pending, hpath, writes, clean>>
    /\ UNCHANGED <<propVars, ioVars>>

\* lines 157-179: the analysis is skipped, runs, or fails and the exception is
\* caught at line 178; the handler goes on to line 182 in every case
ReportStep ==
    /\ hpc = "report"
    /\ \E outcome \in ReportOutcomes :
          h' = [h EXCEPT !.report = outcome]
    /\ hpc' = "commit"
    /\ UNCHANGED <<fs, line_cache, store, pending, hpath, writes, clean>>
    /\ UNCHANGED <<propVars, ioVars>>

\* the same step had line 182 not moved the baseline
CommitSkipped ==
    /\ hpc = "commit"
    /\ hpc' = "returned"
    /\ UNCHANGED <<fs, line_cache, store, pending, hpath, h, writes, clean>>
    /\ UNCHANGED <<propVars, ioVars>>

\* line 182: the lines read at line 40 become the baseline
CommitBaseline ==
    /\ hpc = "commit"
    /\ line_cache' = update_file_baseline(line_cache, hpath, h.new_file_lines)
    /\ hpc' = "returned"
    /\ UNCHANGED <<fs, store, pending, hpath, h, writes, clean>>
    /\ UNCHANGED <<propVars, ioVars>>

\* handle_change has returned to the watcher
HandlerReturn ==
    /\ hpc = "returned"
    /\ hpc' = "idle"
    /\ h' = [NoLocals EXCEPT !.last = IF h.branch \in {"reorder", "edit"}
                                      THEN [path |-> hpath, branch |-> h.branch,
                                            lines |-> h.new_file_lines]
                                      ELSE h.last]
    /\ UNCHANGED <<fs, line_cache, store, pending, hpath, writes, clean>>
    /\ UNCHANGED <<propVars, ioVars>>

\* main(), lines 198-213: every file analysed and stored, its lines cached
InitCycle ==
    /\ fs \in [Paths -> {[exists |-> TRUE, lines |-> c] : c \in CycleContents}]
    /\ store = [p \in Paths |-> BuildFullGraph(p, fs[p])]
    /\ line_cache = [p \in Paths |-> fs[p].lines]
    /\ pending = <<>>
    /\ hpc = "idle"
    /\ hpath = ""
    /\ h = NoLocals
    /\ writes = 0
    /\ clean = TRUE
    /\ PropParked
    /\ IoParked

NextCycle ==
    \/ Save \/ Delete \/ OnModified \/ CheckLines \/ ReorderCommit \/ AddedStep
    \/ DeletedStep \/ ClassifyStep \/ AnalyzeBuild \/ AnalyzeRead \/ BuildStep
    \/ UpdateStep \/ PropagateStep \/ ReportStep \/ CommitBaseline \/ HandlerReturn

SpecCycle == InitCycle /\ [][NextCycle]_vars

\* ------------------------------------------------------------------
\* get_changed_lines on every pair of cached and saved contents: the file was
\* analysed at startup with the cached content, then saved, and the event's
\* handler is about to compare the two
\* ------------------------------------------------------------------
ClassifyLen == 3  \* lines of the cached and of the saved content

ClassifyLines == {Line(0, StXA), Line(0, StXB), Line(1, StXA), Line(0, Blank)}

ClassifyContents == SeqsUpTo(ClassifyLines, ClassifyLen)

InitClassify ==
    /\ line_cache \in [Paths -> ClassifyContents]
    /\ fs \in [Paths -> {[exists |-> TRUE, lines |-> c] : c \in ClassifyContents}]
    /\ store = [p \in Paths |-> BuildFullGraph(p, [exists |-> TRUE, lines |-> line_cache[p]])]
    /\ pending = <<>>
    /\ hpath \in Paths
    /\ h = [NoLocals EXCEPT !.old_graph = get_file_graph(store, hpath),
                            !.full_project_graph = store]
    /\ hpc = "lines"
    /\ writes = 1
    /\ clean = TRUE
    /\ PropParked
    /\ IoParked

NextClassify == CheckLines

SpecClassify == InitClassify /\ [][NextClassify]_vars

\* ------------------------------------------------------------------
\* main(): the startup analysis of the project's files
\* ------------------------------------------------------------------
ExtractLen == 3   \* lines of a file analysed at startup

ExtractLines ==
    {Line(0, StDefF), Line(0, StDefFK), Line(0, StClassC), Line(1, StDefF),
     Line(1, StXA), Line(2, StXA), Line(0, StYFX), Line(1, StYX),
     Line(0, StDefFX), Line(1, StRetX), Line(0, StYF2),
     Line(0, StDefFPQ), Line(0, StYFXA), Line(0, StYF2A), Line(1, StClassC),
     Line(0, StYZFX)}

\* lines 199-200: analyze_project builds every file's table, save_graph stores them
StartupAnalysis ==
    /\ hpc = "startup"
    /\ store' = [p \in Paths |-> BuildFullGraph(p, fs[p])]
    /\ hpc' = "preload"
    /\ UNCHANGED <<fs, line_cache, pending, hpath, h, writes, clean>>
    /\ UNCHANGED <<propVars, ioVars>>

\* lines 204-213: every file's lines become its baseline
Preload ==
    /\ hpc = "preload"
    /\ line_cache' = [p \in Paths |-> fs[p].lines]
    /\ hpc' = "idle"
    /\ UNCHANGED <<fs, store, pending, hpath, h, writes, clean>>
    /\ UNCHANGED <<propVars, ioVars>>

\* main() line 187: both stores empty, the project's files as they are
InitStartup ==
    /\ fs \in [Paths -> {[exists |-> TRUE, lines |-> c] :
                            c \in SeqsUpTo(ExtractLines, ExtractLen)}]
    /\ store = <<>>
    /\ line_cache = <<>>
    /\ pending = <<>>
    /\ hpc = "startup"
    /\ hpath = ""
    /\ h = NoLocals
    /\ writes = 0
    /\ clean = TRUE
    /\ PropParked
    /\ IoParked

NextStartup == StartupAnalysis \/ Preload

SpecStartup == InitStartup /\ [][NextStartup]_vars

\* ------------------------------------------------------------------
\* handle_change up to the deletion tracer, on every file analysed at startup
\* and then saved with some of its lines removed
\* ------------------------------------------------------------------
DeletionLen == 5  \* lines of the file before the save

DeletionLines ==
    {Line(0, StClassC), Line(0, StDefF), Line(1, StDefF), Line(0, StDefG), Line(1, StDefG),
     Line(1, StYFX), Line(2, StYFX), Line(0, StDefLen), Line(1, StRetLen)}

DeletionContents == SeqsUpTo(DeletionLines, DeletionLen)

\* the project's other files, which nobody edits: one has the edited file's
\* base name in another directory
OtherPaths == {"pkg/m.py", "n.py"}

OtherContents == {<<>>, <<Line(0, StDefG), Line(1, StYFX)>>}

\* the content without its lines i..j
Without(lines, i, j) == SubSeq(lines, 1, i - 1) \o SubSeq(lines, j + 1, Len(lines))

\* the file parsed when it was analysed at startup (the table of a file that
\* did not is empty, and nothing can be deleted from it)
InitDeletion ==
    /\ line_cache \in [Paths -> DeletionContents]
    /\ \A p \in Paths : Parse(line_cache[p]).ok
    /\ \E removed \in [Paths -> (1..DeletionLen) \X (1..DeletionLen)] :
          /\ \A p \in Paths : /\ removed[p][1] <= removed[p][2]
                              /\ removed[p][2] <= Len(line_cache[p])
          /\ fs = [p \in Paths |->
                     [exists |-> TRUE,
                      lines |-> Without(line_cache[p], removed[p][1], removed[p][2])]]
    /\ \E other \in [OtherPaths -> OtherContents] :
          store = [p \in Paths \cup OtherPaths |->
                      BuildFullGraph(p, [exists |-> TRUE,
                                         lines |-> IF p \in Paths THEN line_cache[p]
                                                   ELSE other[p]])]
    /\ pending = <<>>
    /\ hpath \in Paths
    /\ h = [NoLocals EXCEPT !.old_graph = get_file_graph(store, hpath),
                            !.full_project_graph = store]
    /\ hpc = "lines"
    /\ writes = 1
    /\ clean = TRUE
    /\ PropParked
    /\ IoParked

NextDeletion == CheckLines \/ AddedStep \/ DeletedStep

SpecDeletion == InitDeletion /\ [][NextDeletion]_vars

\* ------------------------------------------------------------------
\* handle_change on every pair of cached and saved contents of one file of a
\* project of three, up to its return: the no-change and the reorder branches
\* return early, the others are followed up to line 65
\* ------------------------------------------------------------------
\* main() has analysed and cached every file; one of them was saved since
InitReorder ==
    /\ \E edited \in [Paths -> ClassifyContents] :
          line_cache = [p \in Paths \cup OtherPaths |->
                           IF p \in Paths THEN edited[p]
                           ELSE IF p = "n.py" THEN <<Line(0, StDefG), Line(1, StYFX)>>
                           ELSE <<>>]
    /\ fs \in [Paths -> {[exists |-> TRUE, lines |-> c] : c \in ClassifyContents}]
    /\ store = [p \in Paths \cup OtherPaths |->
                   BuildFullGraph(p, [exists |-> TRUE, lines |-> line_cache[p]])]
    /\ pending = <<>>
    /\ hpath \in Paths
    /\ h = [NoLocals EXCEPT !.old_graph = get_file_graph(store, hpath),
                            !.full_project_graph = store]
    /\ hpc = "lines"
    /\ writes = 1
    /\ clean = TRUE
    /\ PropParked
    /\ IoParked

NextReorder == CheckLines \/ ReorderCommit \/ HandlerReturn

SpecReorder == InitReorder /\ [][NextReorder]_vars

\* ------------------------------------------------------------------
\* The store files on disk: save_graph and save_line_cache write a JSON text
\* piece by piece, load_graph and load_line_cache read it back
\* ------------------------------------------------------------------
GraphFile == "graph_cache.json"
LineFile == "line_cache.json"
StoreFiles == {GraphFile, LineFile}

\* the keys a stored dict may have, in the order json.dump writes them
StorePaths == <<"m.py", "n.py">>

\* the entries a file's stored dict may give to a path: a symbol table, or
\* the list of a file's lines
Entries(file, p) ==
    IF file = GraphFile
    THEN {BuildFullGraph(p, [exists |-> TRUE, lines |-> <<Line(0, st)>>]) : st \in {StXA, StYX}}
    ELSE {[lines |-> <<Line(0, st)>>] : st \in {StXA, StYX}}

\* the dicts a store file may be asked to hold
StoreValues(file) ==
    UNION {{v \in [K -> UNION {Entries(file, p) : p \in K}] :
                \A p \in K : v[p] \in Entries(file, p)} : K \in SUBSET Range(StorePaths)}

\* the pieces of a JSON text
Open == [t |-> "{"]
Close == [t |-> "}"]
KeyPiece(p) == [t |-> "key", key |-> p]
ValPiece(e) == [t |-> "val", val |-> e]
NullPiece == [t |-> "null"]        \* the document null
BadBytes == [t |-> "bytes"]        \* bytes that are not UTF-8

\* json.dump(value, f, indent=2): the items from position i of StorePaths on
RECURSIVE DumpItems(_, _)
DumpItems(value, i) ==
    IF i > Len(StorePaths) THEN <<>>
    ELSE (IF StorePaths[i] \in DOMAIN value
          THEN <<KeyPiece(StorePaths[i]), ValPiece(value[StorePaths[i]])>> ELSE <<>>)
         \o DumpItems(value, i + 1)

Dump(value) == <<Open>> \o DumpItems(value, 1) \o <<Close>>

\* the items of a JSON object read from position i on, added to dict; a later
\* item of the same key replaces the earlier one
RECURSIVE ReadItems(_, _, _)
ReadItems(text, i, dict) ==
    IF i >= Len(text) THEN [ok |-> i = Len(text) /\ text[i].t = "}", dict |-> dict]
    ELSE IF text[i].t = "key" /\ text[i + 1].t = "val"
    THEN ReadItems(text, i + 2, Put(dict, text[i].key, text[i + 1].val))
    ELSE [ok |-> FALSE, dict |-> dict]

\* json.load(f) on a file opened with encoding="utf-8"
JsonLoad(text) ==
    IF \E i \in 1..Len(text) : text[i].t = "bytes"
    THEN [outcome |-> "UnicodeDecodeError", value |-> EmptyMap]
    ELSE IF text = <<NullPiece>> THEN [outcome |-> "None", value |-> EmptyMap]
    ELSE IF Len(text) >= 2 /\ text[1].t = "{" /\ ReadItems(text, 2, EmptyMap).ok
    THEN [outcome |-> "dict", value |-> ReadItems(text, 2, EmptyMap).dict]
    ELSE [outcome |-> "JSONDecodeError", value |-> EmptyMap]

\* load_graph (lines 100-108) and load_line_cache (lines 16-22): what the caller
\* gets, a value or an exception that is not caught
Load(file) ==
    IF ~file.exists THEN [outcome |-> "dict", value |-> EmptyMap]
    ELSE LET r == JsonLoad(file.text)
         IN IF r.outcome = "JSONDecodeError" THEN [outcome |-> "dict", value |-> EmptyMap]
            ELSE r

\* get_file_graph, lines 110-113, on what load_graph gave
GetFileGraph(loaded, file_path) ==
    CASE loaded.outcome = "dict" ->
             [outcome |-> "dict", value |-> get_file_graph(loaded.value, file_path)]
      [] loaded.outcome = "None" -> [outcome |-> "AttributeError", value |-> EmptyTable]
      [] OTHER -> [outcome |-> loaded.outcome, value |-> EmptyTable]

\* every text of at most the length of a full dump that a dump cut short leaves
Prefixes(text) == {SubSeq(text, 1, n) : n \in 0..Len(text)}

\* what a store file may hold when the program starts: nothing, a dump, a dump
\* cut short, or something another program or a bad disk left there
DiskStates(file) ==
    {[exists |-> FALSE, text |-> <<>>]}
    \cup {[exists |-> TRUE, text |-> t] :
             t \in UNION {Prefixes(Dump(v)) : v \in StoreValues(file)}
                   \cup {<<NullPiece>>, <<BadBytes>>}}

NoOperation ==
    [pc |-> "idle", op |-> "none", file |-> GraphFile, path |-> "", table |-> EmptyTable,
     prev |-> [outcome |-> "dict", value |-> EmptyMap], new |-> EmptyMap,
     out |-> [outcome |-> "dict", value |-> EmptyMap]]

\* save_graph(graph) or save_line_cache() is called with some dict
SaveBegin ==
    /\ wr.pc = "idle"
    /\ \E file \in StoreFiles : \E v \in StoreValues(file) :
          wr' = [NoOperation EXCEPT !.pc = "open", !.op = "save", !.file = file,
                                    !.prev = Load(disk[file]), !.new = v]
    /\ UNCHANGED <<disk, thr, watch, exp>>
    /\ UNCHANGED <<propVars, cycleVars>>

\* update_partial_graph, lines 179-180: the graph is loaded and the entry set;
\* an exception of load_graph, or of the item assignment on None, ends the call
UpdateBegin ==
    /\ wr.pc = "idle"
    /\ \E i \in 1..Len(StorePaths) :
          \E full_graph \in Entries(GraphFile, StorePaths[i]) :
              LET loaded == Load(disk[GraphFile])
              IN wr' = IF loaded.outcome = "dict"
                       THEN [NoOperation EXCEPT
                               !.pc = "open", !.op = "update", !.path = StorePaths[i],
                               !.table = full_graph, !.prev = loaded,
                               !.new = update_partial_graph(loaded.value, StorePaths[i],
                                                            full_graph)]
                       ELSE [NoOperation EXCEPT !.pc = "raised", !.op = "update",
                                                !.path = StorePaths[i], !.out = loaded]
    /\ UNCHANGED <<disk, thr, watch, exp>>
    /\ UNCHANGED <<propVars, cycleVars>>

\* open(file, "w"), lines 26 and 97: the file is created or emptied
SaveOpen ==
    /\ wr.pc = "open"
    /\ disk' = [disk EXCEPT ![wr.file] = [exists |-> TRUE, text |-> <<>>]]
    /\ wr' = [wr EXCEPT !.pc = "dump"]
    /\ UNCHANGED <<thr, watch, exp>>
    /\ UNCHANGED <<propVars, cycleVars>>

\* json.dump, lines 27 and 98: the next piece reaches the file; after the last
\* one the file is closed
SaveDump ==
    /\ wr.pc = "dump"
    /\ LET text == Dump(wr.new)
           n == Len(disk[wr.file].text) + 1
       IN /\ disk' = [disk EXCEPT ![wr.file].text = Append(@, text[n])]
          /\ wr' = [wr EXCEPT !.pc = IF n = Len(text) THEN "done" ELSE "dump"]
    /\ UNCHANGED <<thr, watch, exp>>
    /\ UNCHANGED <<propVars, cycleVars>>

\* the process is killed while the file is open for writing, and started again
Crash ==
    /\ wr.pc = "dump"
    /\ wr' = [wr EXCEPT !.pc = "idle"]
    /\ UNCHANGED <<disk, thr, watch, exp>>
    /\ UNCHANGED <<propVars, cycleVars>>

\* load_graph() or load_line_cache() is called
LoadCall ==
    /\ wr.pc = "idle"
    /\ \E file \in StoreFiles :
          wr' = [NoOperation EXCEPT !.pc = "loaded", !.op = "load", !.file = file,
                                    !.out = Load(disk[file])]
    /\ UNCHANGED <<disk, thr, watch, exp>>
    /\ UNCHANGED <<propVars, cycleVars>>

\* get_file_graph(file_path) is called
GetFileGraphCall ==
    /\ wr.pc = "idle"
    /\ \E i \in 1..Len(StorePaths) :
          wr' = [NoOperation EXCEPT !.pc = "loaded", !.op = "get", !.path = StorePaths[i],
                                    !.out = GetFileGraph(Load(disk[GraphFile]),
                                                         StorePaths[i])]
    /\ UNCHANGED <<disk, thr, watch, exp>>
    /\ UNCHANGED <<propVars, cycleVars>>

\* the operation has returned, or its exception has reached the caller
OperationEnd ==
    /\ wr.pc \in {"done", "loaded", "raised"}
    /\ wr' = IF wr.pc = "done" THEN [wr EXCEPT !.pc = "idle"] ELSE NoOperation
    /\ UNCHANGED <<disk, thr, watch, exp>>
    /\ UNCHANGED <<propVars, cycleVars>>

InitStore ==
    /\ \E g \in DiskStates(GraphFile), l \in DiskStates(LineFile) :
          disk = [f \in StoreFiles |-> IF f = GraphFile THEN g ELSE l]
    /\ wr = NoOperation
    /\ ThreadsParked
    /\ WatchParked
    /\ ExpandParked
    /\ PropParked
    /\ CycleParked

NextStore ==
    \/ SaveBegin \/ UpdateBegin \/ SaveOpen \/ SaveDump \/ Crash \/ LoadCall
    \/ GetFileGraphCall \/ OperationEnd

SpecStore == InitStore /\ [][NextStore]_vars

\* ------------------------------------------------------------------
\* Two handle_change calls running in parallel, each on an edit of its own
\* file; the code takes no lock, so their steps interleave freely
\* ------------------------------------------------------------------
Callers == {1, 2}

\* the file_path argument of each call
CallerPath(c) == IF c = 1 THEN "m.py" ELSE "n.py"

CallerPaths == {CallerPath(c) : c \in Callers}

BaselineLines == <<Line(0, StXA)>>

EditedContents == {<<Line(0, StXB)>>, <<Line(0, StYX)>>, <<Line(0, StXA), Line(0, StYX)>>}

NoCallerLocals ==
    [pc |-> "lines", new_file_lines |-> <<>>, changed_lines |-> <<>>,
     full_graph |-> EmptyTable, graph |-> EmptyMap]

\* main.py lines 40-44 of one call: the file is read and compared with its baseline
CallerLines(c) ==
    /\ thr[c].pc = "lines"
    /\ LET r == GetChangedLines(fs[CallerPath(c)], CachedLines(line_cache, CallerPath(c)))
       IN thr' = [thr EXCEPT ![c].changed_lines = r.changed,
                             ![c].new_file_lines = r.current_lines,
                             ![c].pc = IF r.changed = <<>> THEN "done"
                                       ELSE IF r.is_reorder_only THEN "commit"
                                       ELSE "build"]
    /\ UNCHANGED <<fs, line_cache, store, pending, hpc, hpath, h, writes, clean>>
    /\ UNCHANGED <<propVars, disk, wr, watch, exp>>

\* lines 68-146: the reports are computed from the file and the loaded graph,
\* and the table to store is built
CallerBuild(c) ==
    /\ thr[c].pc = "build"
    /\ thr' = [thr EXCEPT ![c].full_graph = BuildFullGraph(CallerPath(c), fs[CallerPath(c)]),
                          ![c].pc = "load"]
    /\ UNCHANGED <<fs, line_cache, store, pending, hpc, hpath, h, writes, clean>>
    /\ UNCHANGED <<propVars, disk, wr, watch, exp>>

\* update_partial_graph line 179: graph = self.load_graph()
CallerLoad(c) ==
    /\ thr[c].pc = "load"
    /\ thr' = [thr EXCEPT ![c].graph = store, ![c].pc = "save"]
    /\ UNCHANGED <<fs, line_cache, store, pending, hpc, hpath, h, writes, clean>>
    /\ UNCHANGED <<propVars, disk, wr, watch, exp>>

\* update_partial_graph lines 180-181: the loaded graph with the entry set is saved
CallerSave(c) ==
    /\ thr[c].pc = "save"
    /\ store' = update_partial_graph(thr[c].graph, CallerPath(c), thr[c].full_graph)
    /\ thr' = [thr EXCEPT ![c].pc = "commit"]
    /\ UNCHANGED <<fs, line_cache, pending, hpc, hpath, h, writes, clean>>
    /\ UNCHANGED <<propVars, disk, wr, watch, exp>>

\* lines 62 and 182: update_file_baseline on the CacheManager both calls share
CallerCommit(c) ==
    /\ thr[c].pc = "commit"
    /\ line_cache' = update_file_baseline(line_cache, CallerPath(c), thr[c].new_file_lines)
    /\ thr' = [thr EXCEPT ![c].pc = "done"]
    /\ UNCHANGED <<fs, store, pending, hpc, hpath, h, writes, clean>>
    /\ UNCHANGED <<propVars, disk, wr, watch, exp>>

\* both files were analysed at startup and have since been edited and saved
InitConcurrent ==
    /\ fs \in [CallerPaths -> {[exists |-> TRUE, lines |-> c] : c \in EditedContents}]
    /\ store = [p \in CallerPaths |->
                  BuildFullGraph(p, [exists |-> TRUE, lines |-> BaselineLines])]
    /\ line_cache = [p \in CallerPaths |-> BaselineLines]
    /\ thr = [c \in Callers |-> NoCallerLocals]
    /\ pending = <<>>
    /\ hpc = "off"
    /\ hpath = ""
    /\ h = NoLocals
    /\ writes = 1
    /\ clean = TRUE
    /\ PropParked
    /\ StoreParked
    /\ WatchParked
    /\ ExpandParked

NextConcurrent ==
    \E c \in Callers :
        \/ CallerLines(c) \/ CallerBuild(c) \/ CallerLoad(c) \/ CallerSave(c)
        \/ CallerCommit(c)

SpecConcurrent == InitConcurrent /\ [][NextConcurrent]_vars

\* ------------------------------------------------------------------
\* watcher.ChangeHandler on one .py path: the editor modifies the file, the
\* observer queues a notification per modification and delivers them in order
\* to on_modified; time is counted in quarters of a second
\* ------------------------------------------------------------------
MaxTime == 6            \* the clock stops here
MaxMods == 3            \* modifications of the file in a run
DebounceInterval == 2   \* debounce_interval = 0.5 s

\* the file is written once more and a notification is queued for it
Modify ==
    /\ watch.version < MaxMods
    /\ watch' = [watch EXCEPT !.version = @ + 1, !.queue = @ + 1]
    /\ UNCHANGED <<disk, wr, thr, exp>>
    /\ UNCHANGED <<propVars, cycleVars>>

\* a quarter of a second passes
Tick ==
    /\ watch.now < MaxTime
    /\ watch' = [watch EXCEPT !.now = @ + 1]
    /\ UNCHANGED <<disk, wr, thr, exp>>
    /\ UNCHANGED <<propVars, cycleVars>>

\* on_modified, lines 16-21: the notification comes within the interval of the
\* last callback for the path and is ignored
OnModifiedIgnored ==
    /\ watch.queue > 0
    /\ watch.now - watch.last_called < DebounceInterval
    /\ watch' = [watch EXCEPT !.queue = @ - 1]
    /\ UNCHANGED <<disk, wr, thr, exp>>
    /\ UNCHANGED <<propVars, cycleVars>>

\* on_modified, lines 16-24: last_called is set and the callback runs; it
\* reads the file as it is now (main.py line 40)
OnModifiedCallback ==
    /\ watch.queue > 0
    /\ ~(watch.now - watch.last_called < DebounceInterval)
    /\ watch' = [watch EXCEPT !.queue = @ - 1, !.last_called = watch.now,
                              !.analysed = watch.version, !.callbacks = @ + 1]
    /\ UNCHANGED <<disk, wr, thr, exp>>
    /\ UNCHANGED <<propVars, cycleVars>>

\* ChangeHandler.__init__, lines 7-10: last_called is empty, so the first
\* notification finds last_time = 0, long before now
InitWatch ==
    /\ watch = [now |-> DebounceInterval, last_called |-> 0, queue |-> 0, version |-> 0,
                analysed |-> 0, callbacks |-> 0]
    /\ StoreParked
    /\ ThreadsParked
    /\ ExpandParked
    /\ PropParked
    /\ CycleParked

NextWatch == Modify \/ Tick \/ OnModifiedIgnored \/ OnModifiedCallback

SpecWatch == InitWatch /\ [][NextWatch]_vars

\* ------------------------------------------------------------------
\* watcher.ChangeHandler on several paths: the observer delivers one
\* notification at a time to on_modified, for any watched path at any time;
\* every delivery and its outcome is kept in watch.log
\* ------------------------------------------------------------------
MaxEvents == 4     \* notifications delivered in a run

WatchedPaths == {"m.py", "n.py", "m.pyc"}

\* event.src_path.endswith(".py"), line 13
EndsWithPy(path) == path \in {"m.py", "n.py", "pkg/m.py"}

\* one last time for all paths instead of one per path
LastTimeAnyPath(path) ==
    LET times == {watch.last_called[q] : q \in DOMAIN watch.last_called}
    IN IF times = {} THEN 0 ELSE CHOOSE t \in times : \A o \in times : o <= t

\* self.last_called.get(event.src_path, 0), line 17
last_time(path) ==
    IF path \in DOMAIN watch.last_called THEN watch.last_called[path] ELSE 0

\* the delivery of a notification for path, with what on_modified did with it
Delivered(path, invoked) ==
    Append(watch.log, [path |-> path, at |-> watch.now, invoked |-> invoked])

\* on_modified, lines 13-14: the path does not end with ".py"
OnModifiedNotPy ==
    /\ Len(watch.log) < MaxEvents
    /\ \E path \in WatchedPaths :
          /\ ~EndsWithPy(path)
          /\ watch' = [watch EXCEPT !.log = Delivered(path, FALSE)]
    /\ UNCHANGED <<disk, wr, thr, exp>>
    /\ UNCHANGED <<propVars, cycleVars>>

\* on_modified, lines 13-21: the path was called back less than
\* debounce_interval ago
OnModifiedRecent ==
    /\ Len(watch.log) < MaxEvents
    /\ \E path \in WatchedPaths :
          /\ EndsWithPy(path)
          /\ watch.now - last_time(path) < DebounceInterval
          /\ watch' = [watch EXCEPT !.log = Delivered(path, FALSE)]
    /\ UNCHANGED <<disk, wr, thr, exp>>
    /\ UNCHANGED <<propVars, cycleVars>>

\* on_modified, lines 13-24: the time is recorded for the path and the
\* callback is invoked with it
OnModifiedInvoked ==
    /\ Len(watch.log) < MaxEvents
    /\ \E path \in WatchedPaths :
          /\ EndsWithPy(path)
          /\ ~(watch.now - last_time(path) < DebounceInterval)
          /\ watch' = [watch EXCEPT !.last_called = Put(@, path, watch.now),
                                    !.log = Delivered(path, TRUE)]
    /\ UNCHANGED <<disk, wr, thr, exp>>
    /\ UNCHANGED <<propVars, cycleVars>>

\* ChangeHandler.__init__, lines 7-10: last_called is an empty dict; the clock
\* (time.time(), seconds since 1970) is past debounce_interval
InitDebounce ==
    /\ watch = [now |-> DebounceInterval, last_called |-> EmptyMap, log |-> <<>>]
    /\ StoreParked
    /\ ThreadsParked
    /\ ExpandParked
    /\ PropParked
    /\ CycleParked

NextDebounce == Tick \/ OnModifiedNotPy \/ OnModifiedRecent \/ OnModifiedInvoked

SpecDebounce == InitDebounce /\ [][NextDebounce]_vars

\* ------------------------------------------------------------------
\* The collapsed expansions of analyzer.py followed loop by loop:
\* expand_impacts of analyze_file_changes, and the scans and
\* expand_deletion_impact of get_deleted_variables_impact. A table is visited
\* in any order of its keys.
\* ------------------------------------------------------------------
ExpandLen == 3    \* lines of the file whose table is expanded

ExpandLines ==
    {Line(0, StXY), Line(0, StYX), Line(0, StXA), Line(0, StDefF),
     Line(1, StYFX), Line(1, StXA), Line(0, StYFX)}

ExpandContents == {c \in SeqsUpTo(ExpandLines, ExpandLen) : Parse(c).ok}

\* the line numbers of a set, ascending, as get_changed_lines lists them
Ascending(S, n) == SelectSeq([i \in 1..n |-> i], LAMBDA i : i \in S)

\* the locals of an expansion before its first loop
ExpandLocals ==
    [fn |-> "", pc |-> "while", graph |-> EmptyTable,
     deleted |-> [vars |-> {}, funcs |-> {}],
     seed_vars |-> {}, seed_funcs |-> {},
     affected_vars |-> {}, affected_funcs |-> {},
     normalized_vars |-> {}, normalized_funcs |-> {},
     affected_by_deletion |-> {}, normalized_affected |-> {},
     changed |-> TRUE, todo |-> {}, passes |-> 0]

\* analyze_file_changes lines 217-260 on a file and some of its line numbers:
\* the table is built, the symbols of the changed lines are the first affected
\* ones, their collapsed names are taken
EnterAnalyze(c, changed_lines) ==
    LET file_graph == BuildFullGraph("m.py", [exists |-> TRUE, lines |-> c])
        direct == DirectlyChanged(file_graph, c, changed_lines)
    IN [ExpandLocals EXCEPT
          !.fn = "analyze_file_changes",
          !.graph = file_graph,
          !.seed_vars = direct.vars,
          !.seed_funcs = direct.funcs,
          !.affected_vars = direct.vars,
          !.affected_funcs = direct.funcs,
          !.normalized_vars = {normalize(v) : v \in direct.vars},
          !.normalized_funcs = {normalize(f) : f \in direct.funcs}]

\* get_deleted_variables_impact lines 320-332 on the table loaded before the
\* save and the file as saved
EnterDeletion(old_graph, c) ==
    LET new_graph == BuildFullGraph("m.py", [exists |-> TRUE, lines |-> c])
    IN [ExpandLocals EXCEPT
          !.fn = "get_deleted_variables_impact",
          !.pc = "scan_vars",
          !.graph = new_graph,
          !.deleted = GetDeleted(new_graph, old_graph),
          !.todo = DOMAIN new_graph.variables,
          !.changed = FALSE]

\* {normalize(d) for d in deleted_vars | deleted_funcs}, lines 343 and 348
Gone == {normalize(d) : d \in exp.deleted.vars \cup exp.deleted.funcs}

\* lines 341-344: one variable of the new table is tested against the deleted names
ScanVariable ==
    /\ exp.pc = "scan_vars"
    /\ \E var \in exp.todo :
          exp' = [exp EXCEPT
                    !.todo = @ \ {var},
                    !.affected_by_deletion =
                        IF NormalizedDeps(exp.graph.variables[var]) \cap Gone # {}
                        THEN @ \cup {var} ELSE @]
    /\ UNCHANGED <<propVars, cycleVars, disk, wr, thr, watch>>

\* a scan without the test of the functions
ScanFunctionSkipped ==
    /\ exp.pc = "scan_funcs"
    /\ \E func \in exp.todo : exp' = [exp EXCEPT !.todo = @ \ {func}]
    /\ UNCHANGED <<propVars, cycleVars, disk, wr, thr, watch>>

\* lines 346-349: one function of the new table is tested against the deleted names
ScanFunction ==
    /\ exp.pc = "scan_funcs"
    /\ \E func \in exp.todo :
          exp' = [exp EXCEPT
                    !.todo = @ \ {func},
                    !.affected_by_deletion =
                        IF NormalizedDeps(exp.graph.functions[func]) \cap Gone # {}
                        THEN @ \cup {func} ELSE @]
    /\ UNCHANGED <<propVars, cycleVars, disk, wr, thr, watch>>

\* a for loop has visited every key: the next loop starts; after the scans,
\* lines 353-354 of expand_deletion_impact
LoopEnd ==
    /\ exp.pc \in {"scan_vars", "scan_funcs", "vars", "funcs"}
    /\ exp.todo = {}
    /\ exp' = CASE exp.pc = "scan_vars" ->
                     [exp EXCEPT !.pc = "scan_funcs", !.todo = DOMAIN exp.graph.functions]
                [] exp.pc = "scan_funcs" ->
                     [exp EXCEPT !.pc = "while",
                                 !.changed = TRUE,
                                 !.normalized_affected =
                                     {normalize(a) : a \in exp.affected_by_deletion}]
                [] exp.pc = "vars" ->
                     [exp EXCEPT !.pc = "funcs", !.todo = DOMAIN exp.graph.functions]
                [] exp.pc = "funcs" ->
                     [exp EXCEPT !.pc = "while"]
    /\ UNCHANGED <<propVars, cycleVars, disk, wr, thr, watch>>

\* a loop that makes one pass and stops
WhileOnce ==
    /\ exp.pc = "while"
    /\ exp' = IF exp.passes = 0
              THEN [exp EXCEPT !.changed = FALSE, !.pc = "vars",
                               !.todo = DOMAIN exp.graph.variables,
                               !.passes = @ + 1]
              ELSE [exp EXCEPT !.pc = "done"]
    /\ UNCHANGED <<propVars, cycleVars, disk, wr, thr, watch>>

\* while changed: changed = False, lines 266-268 and 356-357; the function
\* returns when the loop ends
WhileTest ==
    /\ exp.pc = "while"
    /\ exp' = IF exp.changed
              THEN [exp EXCEPT !.changed = FALSE, !.pc = "vars",
                               !.todo = DOMAIN exp.graph.variables,
                               !.passes = @ + 1]
              ELSE [exp EXCEPT !.pc = "done"]
    /\ UNCHANGED <<propVars, cycleVars, disk, wr, thr, watch>>

\* the locals after the body of a for loop of an expansion has run on a symbol
\* with the given entry: lines 270-275 and 278-283 for expand_impacts, lines
\* 359-364 and 367-372 for expand_deletion_impact
PassBody(kind, sym, info) ==
    LET deps == NormalizedDeps(info)
        rest == [exp EXCEPT !.todo = @ \ {sym}]
    IN IF exp.fn = "analyze_file_changes"
       THEN IF /\ deps \cap (exp.normalized_vars \cup exp.normalized_funcs) # {}
               /\ sym \notin (IF kind = "variables" THEN exp.affected_vars
                              ELSE exp.affected_funcs)
            THEN IF kind = "variables"
                 THEN [rest EXCEPT !.affected_vars = @ \cup {sym},
                                   !.normalized_vars = @ \cup {normalize(sym)},
                                   !.changed = TRUE]
                 ELSE [rest EXCEPT !.affected_funcs = @ \cup {sym},
                                   !.normalized_funcs = @ \cup {normalize(sym)},
                                   !.changed = TRUE]
            ELSE rest
       ELSE IF /\ deps \cap exp.normalized_affected # {}
               /\ sym \notin exp.affected_by_deletion
            THEN [rest EXCEPT !.affected_by_deletion = @ \cup {sym},
                              !.normalized_affected = @ \cup {normalize(sym)},
                              !.changed = TRUE]
            ELSE rest

\* one iteration of the loop over the variables, lines 269-275 and 358-364
PassVariable ==
    /\ exp.pc = "vars"
    /\ \E var \in exp.todo : exp' = PassBody("variables", var, exp.graph.variables[var])
    /\ UNCHANGED <<propVars, cycleVars, disk, wr, thr, watch>>

\* one iteration of the loop over the functions, lines 277-283 and 366-372
PassFunction ==
    /\ exp.pc = "funcs"
    /\ \E func \in exp.todo : exp' = PassBody("functions", func, exp.graph.functions[func])
    /\ UNCHANGED <<propVars, cycleVars, disk, wr, thr, watch>>

\* an expansion is about to run: on a file and some of its lines, or on a file
\* saved with some of its lines removed
InitExpand ==
    /\ \E c \in ExpandContents :
          \/ \E S \in SUBSET (1..Len(c)) : exp = EnterAnalyze(c, Ascending(S, Len(c)))
          \/ \E i, j \in 1..Len(c) :
                /\ i <= j
                /\ exp = EnterDeletion(BuildFullGraph("m.py", [exists |-> TRUE, lines |-> c]),
                                       Without(c, i, j))
    /\ StoreParked
    /\ ThreadsParked
    /\ WatchParked
    /\ PropParked
    /\ CycleParked

NextExpand ==
    \/ ScanVariable \/ ScanFunction \/ LoopEnd \/ WhileTest
    \/ PassVariable \/ PassFunction

SpecExpand == InitExpand /\ [][NextExpand]_vars

\* ------------------------------------------------------------------
\* Properties of the processing cycle and of its parts
\* ------------------------------------------------------------------
\* the table extracted from given lines of a file that exists
TableOf(p, lines) == BuildFullGraph(p, [exists |-> TRUE, lines |-> lines])

\* C6: at the end of every real-edit cycle the lines committed as the file's
\* snapshot are the content the table stored in that cycle was extracted from,
\* even when the editor writes the file while the cycle runs.
C6_SnapshotIsStoredContent ==
    (hpc = "returned" /\ h.branch = "edit") =>
        store[hpath] = TableOf(hpath, line_cache[hpath])

\* C7: after saves each handled to completion with no overlap, the stored
\* table of a file is the table extracted from the file's current content.
C7_StoreMatchesContent ==
    (hpc = "idle" /\ pending = <<>> /\ clean) =>
        \A p \in Paths : get_file_graph(store, p) = BuildFullGraph(p, fs[p])

\* the one-to-one maps of 1..n onto itself
IndexPermutations(n) == {pi \in [1..n -> 1..n] : \A i, j \in 1..n : pi[i] = pi[j] => i = j}

\* new holds the lines of old in some order, each with its trimmed text
IsLinePermutation(old, new) ==
    /\ Len(new) = Len(old)
    /\ \E pi \in IndexPermutations(Len(old)) :
          \A i \in 1..Len(old) : strip(new[i]) = strip(old[pi[i]])

\* some line position holds another trimmed text than before
OrderDiffers(old, new) ==
    \E i \in 1..Len(new) : i > Len(old) \/ strip(new[i]) # strip(old[i])

\* get_changed_lines has returned a file-level reorder
FileReorder == h.is_reorder_only /\ h.reorder_scope = "file"

\* C8 as stated: every new content that is a permutation of the cached lines
\* is classified as a reorder of scope "file".
C8_PermutationIsFileReorder ==
    (hpc # "lines" /\ IsLinePermutation(line_cache[hpath], fs[hpath].lines))
        => FileReorder

\* C8: every new content that is a permutation of the cached lines and differs
\* from them in the trimmed text of at least one line position is classified
\* as a reorder of scope "file".
C8_ChangedPermutationIsFileReorder ==
    (/\ hpc # "lines"
     /\ IsLinePermutation(line_cache[hpath], fs[hpath].lines)
     /\ OrderDiffers(line_cache[hpath], fs[hpath].lines))
        => FileReorder

\* three lines, one of them blank, saved in another order and classified
C8_Witness ==
    /\ hpc = "reorder"
    /\ Len(fs[hpath].lines) = 3
    /\ Len(line_cache[hpath]) = 3
    /\ \E i \in 1..3 : strip(line_cache[hpath][i]) = ""
    /\ IsLinePermutation(line_cache[hpath], fs[hpath].lines)
    /\ OrderDiffers(line_cache[hpath], fs[hpath].lines)
    /\ FileReorder

\* C9: per kind, added is keys(new) minus keys(old) and deleted is keys(old)
\* minus keys(new), new being the table of the file as each step reads it and
\* old the table loaded at the start of the cycle; the added and deleted sets
\* of one cycle are disjoint at every moment, whatever the editor writes.
C9_AddedDeletedAreDifferences ==
    /\ [](/\ h.added_vars \cap h.deleted_vars = {}
          /\ h.added_funcs \cap h.deleted_funcs = {})
    /\ [][(hpc = "added" /\ hpc' # "added") =>
            LET new == BuildFullGraph(hpath, fs[hpath])
                old == get_file_graph(store, hpath)
            IN /\ h'.added_vars = DOMAIN new.variables \ DOMAIN old.variables
               /\ h'.added_funcs = DOMAIN new.functions \ DOMAIN old.functions]_vars
    /\ [][(hpc = "deleted" /\ hpc' # "deleted") =>
            LET new == BuildFullGraph(hpath, fs[hpath])
                old == get_file_graph(store, hpath)
            IN /\ h'.deleted_vars = DOMAIN old.variables \ DOMAIN new.variables
               /\ h'.deleted_funcs = DOMAIN old.functions \ DOMAIN new.functions]_vars

\* a cycle has reported added and deleted variables and an added function
C9_Witness ==
    /\ hpc = "returned"
    /\ h.branch = "edit"
    /\ h.added_vars # {}
    /\ h.deleted_vars # {}
    /\ h.added_funcs # {}

\* the plain names called by the statements of a definition, nested ones included
RECURSIVE CalledNames(_)
CalledNames(node) ==
    (IF node.st.form = "call" THEN {node.st.func} ELSE {})
    \cup UNION {CalledNames(node.body[i]) : i \in 1..Len(node.body)}

\* the function definitions of a body in the order the Analyzer visits them,
\* each with its key, all its parameters and the names it calls
RECURSIVE Definitions(_, _, _, _, _)
Definitions(file_name, current_class, current_func, body, i) ==
    IF i > Len(body) THEN <<>>
    ELSE LET node == body[i]
             here ==
               CASE node.st.k = "class" ->
                      Definitions(file_name, Append(current_class, node.st.name),
                                  current_func, node.body, 1)
                 [] node.st.k = "def" ->
                      LET funcs == Append(current_func, node.st.name)
                      IN <<[key |-> qualify(file_name, current_class, funcs, node.st.name),
                            params |-> {qualify(file_name, current_class, funcs, p) :
                                          p \in Range(node.st.args) \cup Range(node.st.kwonly)},
                            calls |-> CalledNames(node)]>>
                         \o Definitions(file_name, current_class, funcs, node.body, 1)
                 [] OTHER -> <<>>
         IN here \o Definitions(file_name, current_class, current_func, body, i + 1)

\* C10: in every table produced by build_full_graph_for_file, each function
\* entry's depends_on holds the qualified name of every parameter of the
\* definition the entry was made from (the last one visited under its key).
C10_ParamsInDependsOn ==
    hpc = "preload" =>
        \A p \in Paths :
            LET tree == Parse(fs[p].lines)
                defs == IF tree.ok
                        THEN Definitions(FileName(p), <<>>, <<>>, tree.nodes, 1) ELSE <<>>
            IN \A i \in 1..Len(defs) :
                  (\A j \in (i + 1)..Len(defs) : defs[j].key # defs[i].key) =>
                      /\ defs[i].key \in DOMAIN store[p].functions
                      /\ defs[i].params
                           \subseteq Range(store[p].functions[defs[i].key].depends_on)

\* C11: for a single-parameter function f at the top level of a file and a
\* top-level assignment y = f(arg) with arg a plain identifier, the table has
\* a variables entry keyed by the parameter's qualified name under f's scope
\* (the name f's own depends_on holds) whose depends_on contains qualified(arg),
\* wherever the definition stands relative to the assignment.
C11_ParameterEdge ==
    hpc # "startup" =>
        \A p \in Paths :
            LET tree == Parse(fs[p].lines)
                defs == IF tree.ok
                        THEN Definitions(FileName(p), <<>>, <<>>, tree.nodes, 1) ELSE <<>>
                calls == IF tree.ok
                         THEN {j \in 1..Len(tree.nodes) :
                                  /\ tree.nodes[j].st.k = "assign"
                                  /\ tree.nodes[j].st.form = "call"}
                         ELSE {}
            IN \A i \in 1..Len(defs), j \in calls :
                  LET st == tree.nodes[j].st
                  IN (/\ Len(defs[i].key) = 3
                      /\ Cardinality(defs[i].params) = 1
                      /\ \A i2 \in 1..Len(defs) : defs[i2].key = defs[i].key => i2 = i
                      /\ st.func = Bare(defs[i].key))
                     => \A a \in 1..Len(st.cargs), q \in defs[i].params :
                           IsIdent(st.cargs[a]) =>
                              /\ q \in DOMAIN store[p].variables
                              /\ qualify(FileName(p), <<>>, <<>>, st.cargs[a])
                                   \in Range(store[p].variables[q].depends_on)

\* the scenario file: "def f(x): return x + 1" (its body on a line of its
\* own), then "y = f(2)"
Scenario12 == <<Line(0, StDefFX), Line(1, StRetX), Line(0, StYF2)>>

\* C12: on the scenario file, seeding f (its definition line changed) gives
\* affected functions containing f and affected variables containing both x
\* and y, by the per-file expansion followed by the ordered propagation over
\* the stored graph; and no variables entry for x holds a dependency.
C12_SeedFReachesXAndY ==
    \A p \in Paths :
        (hpc # "startup" /\ fs[p].lines = Scenario12) =>
            LET direct == AnalyzeFileChanges(store[p], fs[p].lines, <<1>>)
                vars12 == Closure(store, "variables", direct.vars)
                funcs12 == Closure(store, "functions", direct.funcs)
            IN /\ \E fn \in funcs12 : Bare(fn) = "f"
               /\ \E v \in vars12 : Bare(v) = "x"
               /\ \E v \in vars12 : Bare(v) = "y"
               /\ \A k \in DOMAIN store[p].variables :
                     Bare(k) = "x" => store[p].variables[k].depends_on = <<>>

\* the pairs <<f, g>> of the save being handled: f is a function of the table
\* loaded at the start of the cycle that the saved file no longer defines, g a
\* function of that table that the saved file still defines and whose
\* definition (the last one under its key) calls f's name
DeletedCallees ==
    LET tree == Parse(fs[hpath].lines)
        defs == IF fs[hpath].exists /\ tree.ok
                THEN Definitions(FileName(hpath), <<>>, <<>>, tree.nodes, 1) ELSE <<>>
        last == {i \in 1..Len(defs) : \A j \in (i + 1)..Len(defs) : defs[j].key # defs[i].key}
        kept == {defs[i].key : i \in last}
        old == DOMAIN h.old_graph.functions
    IN {fg \in (old \ kept) \X (old \cap kept) :
           \E i \in last : defs[i].key = fg[2] /\ Bare(fg[1]) \in defs[i].calls}

\* C13: after get_deleted_variables_impact has run on a save that deleted a
\* function f which a function g remaining in the file still calls by plain
\* name, f is in deleted_funcs and g in affected_by_deletion, whatever the
\* nesting of the two definitions.
C13_CallerOfDeletedAffected ==
    hpc \in {"classify", "analyze"} =>
        \A fg \in DeletedCallees :
            /\ fg[1] \in h.deleted_funcs
            /\ fg[2] \in h.affected_by_deletion

\* the same holds of every deleted f whose name is not a builtin name
CallerOfDeletedNonBuiltinAffected ==
    hpc \in {"classify", "analyze"} =>
        \A fg \in DeletedCallees :
            Bare(fg[1]) \notin BuiltinNames =>
                /\ fg[1] \in h.deleted_funcs
                /\ fg[2] \in h.affected_by_deletion

\* the tracer has run on a save that deleted a function declared inside a class
\* or a function and still called by a remaining function
NestedCalleeDeleted ==
    /\ hpc \in {"classify", "analyze"}
    /\ \E fg \in DeletedCallees :
          /\ Bare(fg[1]) \notin BuiltinNames
          /\ Len(fg[1]) > 3
          /\ fg[2] \in h.affected_by_deletion

\* C14: after the deletion tracer has run, every symbol of every file of the
\* project graph (the saved file as it is now, the other files as stored) whose
\* collapsed dependency set holds the collapsed name of a deleted symbol is in
\* affected_by_deletion.
C14_DeletionImpactProjectWide ==
    hpc \in {"classify", "analyze"} =>
        LET gone == {normalize(d) : d \in h.deleted_vars \cup h.deleted_funcs}
        IN \A q \in DOMAIN h.full_project_graph :
              LET t == IF q = hpath THEN BuildFullGraph(hpath, fs[hpath])
                       ELSE h.full_project_graph[q]
              IN /\ \A s \in DOMAIN t.variables :
                       NormalizedDeps(t.variables[s]) \cap gone # {}
                           => s \in h.affected_by_deletion
                 /\ \A s \in DOMAIN t.functions :
                       NormalizedDeps(t.functions[s]) \cap gone # {}
                           => s \in h.affected_by_deletion

\* C15: while save_graph or save_line_cache runs on a readable store, and
\* after it has returned or the process was killed in it, the load of the file
\* gives the complete dict of before the call or the complete dict being saved.
C15_StoreWriteAtomic ==
    (/\ wr.op \in {"save", "update"}
     /\ wr.pc \in {"open", "dump", "done", "idle"}
     /\ wr.prev.outcome = "dict")
        => Load(disk[wr.file]) \in {wr.prev, [outcome |-> "dict", value |-> wr.new]}

\* the dict a store file holds: the one whose complete dump its text is
StoredDict(name) ==
    LET valid == {v \in StoreValues(name) : disk[name].exists /\ disk[name].text = Dump(v)}
    IN IF valid = {} THEN EmptyMap ELSE CHOOSE v \in valid : TRUE

\* C16: load_graph returns the stored dict of a valid store and the empty dict
\* of an absent or corrupt one, get_file_graph the stored table of its path or
\* the empty two-kind table; neither raises.
C16_GraphStoreReadsNeverFail ==
    (wr.pc = "loaded" /\ wr.file = GraphFile) =>
        /\ wr.out.outcome = "dict"
        /\ wr.op = "load" => wr.out.value = StoredDict(GraphFile)
        /\ wr.op = "get" =>
              wr.out.value = IF wr.path \in DOMAIN StoredDict(GraphFile)
                             THEN StoredDict(GraphFile)[wr.path] ELSE EmptyTable

\* C17: when update_partial_graph has returned, the store gives its path the
\* table it was called with and every other path of the store the entry it had
\* before the call, whatever updates came before.
C17_UpdateReplacesOneEntry ==
    (wr.op = "update" /\ wr.pc = "done") =>
        LET now == Load(disk[GraphFile])
        IN /\ now.outcome = "dict"
           /\ DOMAIN now.value = DOMAIN wr.prev.value \cup {wr.path}
           /\ now.value[wr.path] = wr.table
           /\ \A q \in DOMAIN wr.prev.value \ {wr.path} : now.value[q] = wr.prev.value[q]

\* an update has returned that replaced a path's entry by a different table in
\* a store holding another file's entry too
C17_Witness ==
    /\ wr.op = "update"
    /\ wr.pc = "done"
    /\ wr.path \in DOMAIN wr.prev.value
    /\ wr.prev.value[wr.path] # wr.table
    /\ DOMAIN wr.prev.value \ {wr.path} # {}

\* C18: when two calls of handle_change for two different files, run in
\* parallel, have both returned, the Graph Store holds the table of each file's
\* saved content and the line snapshots hold each file's saved lines.
C18_NoLostUpdate ==
    (\A c \in Callers : thr[c].pc = "done") =>
        \A c \in Callers :
            /\ get_file_graph(store, CallerPath(c))
                  = BuildFullGraph(CallerPath(c), fs[CallerPath(c)])
            /\ CachedLines(line_cache, CallerPath(c)) = fs[CallerPath(c)].lines

\* C19: once every notification of a burst of modifications has been
\* delivered to on_modified, the callback has been invoked at or after the last
\* modification, so it has read the file's final content.
C19_LastModificationAnalysed ==
    watch.queue = 0 => watch.analysed = watch.version

\* C20: when handle_change has returned from a save, handled with nothing else
\* going on, that left the file unparsable, the Graph Store entry of the file
\* is the empty table build_full_graph_for_file gives for it and the file's
\* lines are its baseline; and the call raises only for a file that is gone.
C20_ParseFailureHandled ==
    /\ (/\ hpc = "returned"
        /\ clean
        /\ pending = <<>>
        /\ fs[hpath].exists
        /\ ~Parse(fs[hpath].lines).ok)
          => /\ BuildFullGraph(hpath, fs[hpath]) = EmptyTable
             /\ get_file_graph(store, hpath) = EmptyTable
             /\ CachedLines(line_cache, hpath) = fs[hpath].lines
    /\ hpc = "raised" => ~fs[hpath].exists

\* C21: a call of handle_change that finds its path missing, or finds no line
\* changed, returns at once as a "no change" cycle without raising; the step
\* that finds it and every step until the handler is idle again leave the
\* Graph Store and the line snapshots as they were, the Graph Store being the
\* one loaded at the start of the call.
C21_NoChangeWritesNothing ==
    /\ [][(hpc = "lines" /\ hpc' # "lines"
           /\ (~fs[hpath].exists
               \/ GetChangedLines(fs[hpath], CachedLines(line_cache, hpath)).changed = <<>>))
          => /\ hpc' = "returned"
             /\ h'.branch = "no change"
             /\ store' = store
             /\ line_cache' = line_cache]_vars
    /\ [][(hpc = "returned" /\ h.branch = "no change")
          => /\ store' = h.full_project_graph
             /\ line_cache' = line_cache]_vars
    /\ []((hpc = "returned" /\ h.branch = "no change") => store = h.full_project_graph)

\* handle_change has returned from an event for a file that was removed after
\* its save, with the snapshot and the table of the earlier content kept
C21_Witness ==
    /\ hpc = "returned"
    /\ h.branch = "no change"
    /\ ~fs[hpath].exists
    /\ line_cache[hpath] # <<>>
    /\ store[hpath] # EmptyTable

\* C22: whatever the editor does to the file while handle_change runs, the
\* removal of the file included, the call does not raise.
C22_MissingFileNeverRaises ==
    hpc # "raised"

\* C23: in a real-edit cycle the Graph Store entry is replaced first, the
\* ordered propagation then loads a store that holds the replaced entry, and
\* the baseline is committed last: the propagation of the cycle loads the store
\* only when the store gives the file the table built in this cycle, the
\* baseline changes only after that propagation and with the entry still in
\* place, and the store is written only before both.
C23_StoreThenPropagateThenBaseline ==
    /\ [][(h'.branch = "edit" /\ h'.graph # h.graph)
          => /\ get_file_graph(store, hpath) = h.full_graph
             /\ h'.graph = store
             /\ h'.graph[hpath] = h.full_graph
             /\ line_cache' = line_cache
             /\ store' = store]_vars
    /\ [][(h.branch = "edit" /\ line_cache' # line_cache)
          => /\ h.graph = store
             /\ store[hpath] = h.full_graph
             /\ store' = store
             /\ line_cache' = update_file_baseline(line_cache, hpath, h.new_file_lines)]_vars
    /\ [][store' # store
          => /\ h.branch = "edit"
             /\ h.graph = <<>>
             /\ store' = update_partial_graph(store, hpath, h.full_graph)
             /\ line_cache' = line_cache]_vars
    /\ []((hpc = "returned" /\ h.branch = "edit") => h.graph # <<>>)

\* a real-edit cycle has returned after replacing the file's entry by another
\* table, propagating over the store that holds it and moving the baseline
C23_Witness ==
    /\ hpc = "returned"
    /\ h.branch = "edit"
    /\ h.old_graph # h.full_graph
    /\ h.graph = store
    /\ store[hpath] = h.full_graph
    /\ line_cache[hpath] = h.new_file_lines
    /\ h.all_affected_vars # {}

\* C24: a call of handle_change whose save is classified as a reorder, of scope
\* "file" or "local", writes nothing to the Graph Store and, when it returns,
\* has set the snapshot of its file to the lines it read and left the snapshot
\* of every other file as it was.
C24_ReorderMovesOnlyTheBaseline ==
    /\ [][(h'.branch = "reorder" /\ hpc' # "idle")
          => /\ store' = store
             /\ store' = h'.full_project_graph
             /\ IF hpc = "reorder"
                THEN /\ hpc' = "returned"
                     /\ DOMAIN line_cache' = DOMAIN line_cache \cup {hpath}
                     /\ line_cache'[hpath] = fs[hpath].lines
                     /\ \A q \in DOMAIN line_cache \ {hpath} :
                           line_cache'[q] = line_cache[q]
                ELSE line_cache' = line_cache]_vars
    /\ []((hpc = "returned" /\ h.branch = "reorder")
             => /\ h.reorder_scope \in {"file", "local"}
                /\ line_cache[hpath] = h.new_file_lines)

\* a save classified as a local reorder has been handled in a project whose
\* other files have snapshots of their own
C24_Witness ==
    /\ hpc = "returned"
    /\ h.branch = "reorder"
    /\ h.reorder_scope = "local"
    /\ line_cache[hpath] = fs[hpath].lines
    /\ \E q \in DOMAIN line_cache \ {hpath} : line_cache[q] # <<>>
    /\ store[hpath] # TableOf(hpath, fs[hpath].lines)

\* the two contents have the same number of lines and each line has the
\* trimmed text of the line at its position in the other
SameTrimmedLines(old, new) ==
    /\ Len(new) = Len(old)
    /\ \A i \in 1..Len(new) : strip(new[i]) = strip(old[i])

\* C25: get_changed_lines returns an empty changed list exactly when the file
\* and its cached baseline have the same number of lines and equal trimmed
\* text at every line; a save that only removes lines from the end of the file
\* gives a non-empty list.
C25_NoChangeIffSameLines ==
    hpc # "lines" =>
        ((h.changed_lines = <<>>) <=> SameTrimmedLines(line_cache[hpath], fs[hpath].lines))

\* how many of the lines from..to of a content have the trimmed text t
SpanCount(lines, from, to, t) ==
    Cardinality({i \in from..Min(to, Len(lines)) : strip(lines[i]) = t})

\* the lines from..to of the two contents have the same multiset of trimmed
\* texts, the texts of the set given
SameMultiset(old, new, from, to, texts) ==
    \A t \in texts : SpanCount(old, from, to, t) = SpanCount(new, from, to, t)

\* the trimmed texts of the lines of two contents
TrimmedTexts(old, new) ==
    {strip(old[i]) : i \in 1..Len(old)} \cup {strip(new[i]) : i \in 1..Len(new)}

\* the line numbers of new beyond the length of old or with another trimmed text
ChangedIndices(old, new) ==
    {i \in 1..Len(new) : i > Len(old) \/ strip(new[i]) # strip(old[i])}

\* file-level reorder as section 4.3 defines it: some line changed, the line
\* counts are equal and the multisets of trimmed non-blank lines are identical
IsFileReorder(old, new) ==
    /\ ChangedIndices(old, new) # {}
    /\ Len(new) = Len(old)
    /\ SameMultiset(old, new, 1, Len(new), TrimmedTexts(old, new) \ {""})

\* the span from the least to the greatest changed line number holds the same
\* multiset of the given trimmed texts in both contents
SameOverChangedSpan(old, new, texts) ==
    LET D == ChangedIndices(old, new)
        lo == CHOOSE i \in D : \A j \in D : i <= j
        hi == CHOOSE i \in D : \A j \in D : i >= j
    IN D # {} /\ SameMultiset(old, new, lo, hi, texts)

\* get_changed_lines has returned a local reorder
LocalReorder == h.is_reorder_only /\ h.reorder_scope = "local"

\* C26: get_changed_lines returns a local reorder exactly when the save is not
\* a file-level reorder, some line changed, and the minimal contiguous span of
\* line numbers covering the changed ones holds the same multiset of trimmed
\* lines in the old and in the new version; every other save with a changed
\* line that is not a file-level reorder is returned with is_reorder_only False.
C26_LocalReorderIffSpanMultisetsEqual ==
    hpc # "lines" =>
        LET old == line_cache[hpath]
            new == fs[hpath].lines
            local == /\ ~IsFileReorder(old, new)
                     /\ SameOverChangedSpan(old, new, TrimmedTexts(old, new))
        IN /\ LocalReorder <=> local
           /\ (ChangedIndices(old, new) # {} /\ ~IsFileReorder(old, new) /\ ~local)
                 => ~h.is_reorder_only

\* the same with blank lines left out of the multisets
LocalReorderIffNonBlankSpanMultisetsEqual ==
    hpc # "lines" =>
        LET old == line_cache[hpath]
            new == fs[hpath].lines
            local == /\ ~IsFileReorder(old, new)
                     /\ SameOverChangedSpan(old, new, TrimmedTexts(old, new) \ {""})
        IN /\ LocalReorder <=> local
           /\ FileReorder <=> IsFileReorder(old, new)
           /\ (ChangedIndices(old, new) # {} /\ ~IsFileReorder(old, new) /\ ~local)
                 => ~h.is_reorder_only

\* C27: when handle_change calls update_partial_graph for a save handled with
\* no other save going on, the seed sets it passes hold no symbol that the
\* save added to the file's table, whether or not the save deleted symbols.
C27_SeedsHoldNoAddedSymbol ==
    (hpc = "update" /\ clean) =>
        LET new == BuildFullGraph(hpath, fs[hpath])
        IN /\ h.all_affected_vars
                \cap (DOMAIN new.variables \ DOMAIN h.old_graph.variables) = {}
           /\ h.all_affected_funcs
                \cap (DOMAIN new.functions \ DOMAIN h.old_graph.functions) = {}

\* the same of a save that deleted no symbol
SeedsOfSaveWithoutDeletionHoldNoAddedSymbol ==
    (hpc = "update" /\ clean /\ h.deleted_vars = {} /\ h.deleted_funcs = {}) =>
        LET new == BuildFullGraph(hpath, fs[hpath])
        IN /\ h.all_affected_vars
                \cap (DOMAIN new.variables \ DOMAIN h.old_graph.variables) = {}
           /\ h.all_affected_funcs
                \cap (DOMAIN new.functions \ DOMAIN h.old_graph.functions) = {}

\* the symbols of the table being expanded, each with its kind
Symbols ==
    ({"variables"} \X DOMAIN exp.graph.variables)
        \cup ({"functions"} \X DOMAIN exp.graph.functions)

\* the collapsed dependency names of a symbol of that table
CollapsedDeps(s) == NormalizedDeps(exp.graph[s[1]][s[2]])

\* X holds every symbol of the table with a collapsed dependency on the
\* collapsed name of one of its members
ClosedUnderCollapsedDeps(X) ==
    \A s \in Symbols : CollapsedDeps(s) \cap {normalize(x[2]) : x \in X} # {} => s \in X

\* the least set of symbols that contains S and is closed
LeastClosed(S) ==
    {s \in Symbols \cup S :
        \A X \in SUBSET (Symbols \cup S) : (S \subseteq X /\ ClosedUnderCollapsedDeps(X)) => s \in X}

\* the symbols expand_impacts holds as affected
AffectedSymbols ==
    ({"variables"} \X exp.affected_vars) \cup ({"functions"} \X exp.affected_funcs)

\* C28: expand_impacts ends on every table, cyclic ones included (while it has
\* not returned a step is possible, and it makes at most one pass more than the
\* table has symbols), and what it returns is the least fixed point: it holds
\* the seeds, is closed under "has a collapsed dependency on the collapsed name
\* of a member", and holds nothing outside the least such set.
C28_ExpandImpactsLeastFixedPoint ==
    exp.fn = "analyze_file_changes" =>
        LET seeds == ({"variables"} \X exp.seed_vars) \cup ({"functions"} \X exp.seed_funcs)
        IN /\ exp.passes <= Cardinality(Symbols) + 1
           /\ exp.pc # "done" => ENABLED NextExpand
           /\ AffectedSymbols \subseteq LeastClosed(seeds)
           /\ exp.pc = "done" =>
                 /\ seeds \subseteq AffectedSymbols
                 /\ ClosedUnderCollapsedDeps(AffectedSymbols)
                 /\ AffectedSymbols = LeastClosed(seeds)
                 /\ [vars |-> exp.affected_vars, funcs |-> exp.affected_funcs]
                      = expand_impacts(exp.graph, exp.seed_vars, exp.seed_funcs)

\* expand_impacts has returned from a table in which two variables depend on
\* each other, after a pass that added a symbol and one that added none
C28_Witness ==
    /\ exp.fn = "analyze_file_changes"
    /\ exp.pc = "done"
    /\ exp.passes >= 2
    /\ exp.affected_vars # exp.seed_vars
    /\ \E a, b \in exp.affected_vars :
          /\ a # b
          /\ normalize(b) \in NormalizedDeps(exp.graph.variables[a])
          /\ normalize(a) \in NormalizedDeps(exp.graph.variables[b])

\* the symbols of the new table with a collapsed dependency on a deleted name
ReferDeleted(kind) ==
    {s \in DOMAIN exp.graph[kind] : NormalizedDeps(exp.graph[kind][s]) \cap Gone # {}}

\* C29: when get_deleted_variables_impact returns, affected_by_deletion holds
\* every variable and every function of the file with a collapsed dependency
\* on a deleted symbol, of either kind, and every symbol of the file with a
\* collapsed dependency on the collapsed name of a member of
\* affected_by_deletion; the scans and the expansion end on every table,
\* cyclic ones included.
C29_DeletionExpansionClosed ==
    exp.fn = "get_deleted_variables_impact" =>
        /\ exp.passes <= Cardinality(Symbols) + 1
        /\ exp.pc # "done" => ENABLED NextExpand
        /\ exp.pc = "done" =>
              /\ \A v \in DOMAIN exp.graph.variables :
                    NormalizedDeps(exp.graph.variables[v])
                        \cap {normalize(d) : d \in exp.deleted.funcs} # {}
                      => v \in exp.affected_by_deletion
              /\ \A f \in DOMAIN exp.graph.functions :
                    NormalizedDeps(exp.graph.functions[f])
                        \cap {normalize(d) : d \in exp.deleted.vars} # {}
                      => f \in exp.affected_by_deletion
              /\ ReferDeleted("variables") \cup ReferDeleted("functions")
                    \subseteq exp.affected_by_deletion
              /\ \A s \in Symbols :
                    CollapsedDeps(s) \cap {normalize(a) : a \in exp.affected_by_deletion} # {}
                      => s[2] \in exp.affected_by_deletion
              /\ exp.affected_by_deletion = AffectedByDeletion(exp.graph, exp.deleted)

\* the tracer has returned a function that refers to a deleted variable and a
\* variable reached through that function only
C29_Witness ==
    /\ exp.fn = "get_deleted_variables_impact"
    /\ exp.pc = "done"
    /\ exp.deleted.vars # {}
    /\ exp.deleted.funcs = {}
    /\ \E f \in ReferDeleted("functions") : f \in exp.affected_by_deletion
    /\ \E v \in exp.affected_by_deletion :
          /\ v \in DOMAIN exp.graph.variables
          /\ v \notin ReferDeleted("variables")

\* the dependencies of the variables entry synthesized for a parameter
ParamEdges(table, key) ==
    IF key \in DOMAIN table.variables THEN Range(table.variables[key].depends_on) ELSE {}

\* C30: in a file that defines one function f at the top level and then holds
\* one top-level assignment y = f(a1, ..., an) with as many arguments as f has
\* parameters, the variables entry synthesized for parameter pi depends on
\* qualified(ai) exactly when ai is a plain identifier, and on no other argument
\* aj, j # i, of the call.
C30_ParameterEdgesPositional ==
    hpc # "startup" =>
        \A p \in Paths :
            LET tree == Parse(fs[p].lines)
                nodes == IF tree.ok THEN tree.nodes ELSE <<>>
                defs == {d \in 1..Len(nodes) : nodes[d].st.k = "def"}
                calls == {c \in 1..Len(nodes) :
                             nodes[c].st.k = "assign" /\ nodes[c].st.form = "call"}
            IN \A d \in defs, c \in calls :
                  LET params == ParamNames(nodes[d].st)
                      cargs == nodes[c].st.cargs
                      f_name == qualify(FileName(p), <<>>, <<nodes[d].st.name>>, nodes[d].st.name)
                      arg(i) == qualify(FileName(p), <<>>, <<>>, cargs[i])
                  IN (/\ defs = {d}
                      /\ calls = {c}
                      /\ d < c
                      /\ nodes[c].st.func = nodes[d].st.name
                      /\ Len(cargs) = Len(params))
                     => \A i \in 1..Len(params) :
                           LET edges == ParamEdges(store[p], f_name \o <<params[i]>>)
                           IN /\ IsIdent(cargs[i]) <=> arg(i) \in edges
                              /\ \A j \in 1..Len(cargs) :
                                    (j # i /\ cargs[j] # cargs[i]) => arg(j) \notin edges

\* the qualified names the targets of a body's assignments have when the
\* enclosing classes and functions are listed in the order they nest
RECURSIVE NestedNames(_, _, _, _)
NestedNames(file_name, scopes, body, i) ==
    IF i > Len(body) THEN {}
    ELSE LET node == body[i]
             here ==
               IF node.st.k \in {"class", "def"}
               THEN NestedNames(file_name, Append(scopes, node.st.name), node.body, 1)
               ELSE {<<file_name>> \o scopes \o <<node.st.targets[t]>> :
                        t \in 1..Len(node.st.targets)}
         IN here \cup NestedNames(file_name, scopes, body, i + 1)

\* the keys of the variables entries made for the parameters of a file's functions
ParameterKeys(defs) ==
    UNION {{defs[d].key \o <<Bare(q)>> : q \in defs[d].params} : d \in 1..Len(defs)}

\* C31: in every table produced by build_full_graph_for_file, the variables
\* entries made for assignment targets are keyed by the file identifier, the
\* names of the enclosing classes and functions in outer-to-inner nesting
\* order, and the target's name: every such name is a key, and every key that
\* is not a parameter's entry is such a name.
C31_VariableNamesInNestingOrder ==
    hpc # "startup" =>
        \A p \in Paths :
            LET tree == Parse(fs[p].lines)
                nodes == IF tree.ok THEN tree.nodes ELSE <<>>
                names == NestedNames(FileName(p), <<>>, nodes, 1)
                defs == Definitions(FileName(p), <<>>, <<>>, nodes, 1)
            IN /\ names \subseteq DOMAIN store[p].variables
               /\ DOMAIN store[p].variables \ ParameterKeys(defs) \subseteq names

\* the keys a body's function definitions have when each is named by the file
\* identifier, its enclosing scopes in nesting order and its own name once
RECURSIVE NestedFunctionKeys(_, _, _, _)
NestedFunctionKeys(file_name, scopes, body, i) ==
    IF i > Len(body) THEN {}
    ELSE LET node == body[i]
             here ==
               IF node.st.k \in {"class", "def"}
               THEN (IF node.st.k = "def"
                     THEN {<<file_name>> \o scopes \o <<node.st.name>>} ELSE {})
                    \cup NestedFunctionKeys(file_name, Append(scopes, node.st.name),
                                            node.body, 1)
               ELSE {}
         IN here \cup NestedFunctionKeys(file_name, scopes, body, i + 1)

\* C32: in every table produced by build_full_graph_for_file, the keys of the
\* functions table are exactly the names made of the file identifier, the
\* enclosing scope names outer-to-inner and the function's own name once
\* (A.f for a top-level function f of file A, A.C.m for a method m of class C).
C32_FunctionKeyHoldsOwnNameOnce ==
    hpc # "startup" =>
        \A p \in Paths :
            LET tree == Parse(fs[p].lines)
                nodes == IF tree.ok THEN tree.nodes ELSE <<>>
            IN DOMAIN store[p].functions = NestedFunctionKeys(FileName(p), <<>>, nodes, 1)

\* a list of names in ascending string order with no name twice
SortedNoDuplicates(names) ==
    \A i \in 1..(Len(names) - 1) : NameLess(names[i], names[i + 1])

\* C33: every depends_on list of every table in the Graph Store, in the
\* variables table (the entries made for function parameters included) and in
\* the functions table, is sorted and holds no name twice.
C33_DependsOnSortedNoDuplicates ==
    \A p \in DOMAIN store :
        /\ \A v \in DOMAIN store[p].variables :
              SortedNoDuplicates(store[p].variables[v].depends_on)
        /\ \A f \in DOMAIN store[p].functions :
              SortedNoDuplicates(store[p].functions[f].depends_on)

\* the deliveries before the i-th for the same path that invoked the callback
InvokedBefore(i) ==
    {j \in 1..(i - 1) : watch.log[j].path = watch.log[i].path /\ watch.log[j].invoked}

\* C34: of the notifications delivered to on_modified, one for a path that does
\* not end with ".py" never invokes the callback; one for a .py path p invokes
\* it exactly when no earlier notification for p invoked it or the last one
\* that did is at least debounce_interval back, whatever was delivered for
\* other paths; so two callbacks for one path are at least debounce_interval
\* apart.
C34_DebouncePerPath ==
    \A i \in 1..Len(watch.log) :
        LET e == watch.log[i]
            before == InvokedBefore(i)
            last == CHOOSE j \in before : \A o \in before : o <= j
        IN /\ e.path = "m.pyc" => ~e.invoked
           /\ e.path \in {"m.py", "n.py"} =>
                 (e.invoked <=> (before = {} \/ e.at - watch.log[last].at >= DebounceInterval))
           /\ \A j \in before : e.invoked => e.at - watch.log[j].at >= DebounceInterval

\* m.py is called back, n.py is called back within the interval of it, a third
\* notification for m.py within the interval is dropped, and a notification
\* for m.pyc is dropped
C34_Witness ==
    /\ Len(watch.log) = 4
    /\ watch.log[1].path = "m.py" /\ watch.log[1].invoked
    /\ watch.log[2].path = "n.py" /\ watch.log[2].invoked
    /\ watch.log[2].at - watch.log[1].at < DebounceInterval
    /\ watch.log[3].path = "m.py" /\ ~watch.log[3].invoked
    /\ watch.log[4].path = "m.pyc" /\ ~watch.log[4].invoked

\* C35: whatever the reporting step comes to (analyzer disabled, a response,
\* no response, an exception), it leaves both stores and the values the cycle
\* is about to commit as they are and hands over to the baseline commit, and a
\* real-edit cycle that has returned has the file's Graph Store entry equal to
\* the table built in the cycle and the file's baseline equal to the lines read
\* in the cycle.
C35_ReportingNeverAffectsPersistedState ==
    /\ [][(hpc = "report" /\ hpc' # "report")
          => /\ hpc' = "commit"
             /\ h'.report \in ReportOutcomes
             /\ store' = store
             /\ line_cache' = line_cache
             /\ h'.full_graph = h.full_graph
             /\ h'.new_file_lines = h.new_file_lines]_vars
    /\ []((hpc = "returned" /\ h.branch = "edit")
          => /\ h.report \in ReportOutcomes
             /\ store[hpath] = h.full_graph
             /\ line_cache[hpath] = h.new_file_lines)

\* a real-edit cycle whose analysis raised has returned with the entry replaced
\* by another table and the baseline moved to the saved lines
C35_Witness ==
    /\ hpc = "returned"
    /\ h.branch = "edit"
    /\ h.report = "raised"
    /\ h.old_graph # h.full_graph
    /\ store[hpath] = h.full_graph
    /\ line_cache[hpath] = h.new_file_lines

\* C36: in a real-edit cycle during which the file is not modified, once the
\* sets to report are computed, added and deleted are disjoint per kind, the
\* modified sets left by lines 132-133 are disjoint from the added and from the
\* deleted ones of their kind, and no item affected by deletion is a deleted
\* symbol of the kind it is reported under.
C36_ReportedSetsDisjointPerKind ==
    (/\ clean
     /\ h.branch = "edit"
     /\ hpc \in {"build", "update", "propagate", "report", "commit", "returned"})
    => /\ h.added_vars \cap h.deleted_vars = {}
       /\ h.added_funcs \cap h.deleted_funcs = {}
       /\ h.affected_vars \cap h.added_vars = {}
       /\ h.affected_funcs \cap h.added_funcs = {}
       /\ h.affected_vars \cap h.deleted_vars = {}
       /\ h.affected_funcs \cap h.deleted_funcs = {}
       /\ h.affected_vars_del \cap h.deleted_vars = {}
       /\ h.affected_funcs_del \cap h.deleted_funcs = {}
       /\ h.affected_by_deletion = h.affected_vars_del \cup h.affected_funcs_del
          \/ (h.deleted_vars = {} /\ h.deleted_funcs = {})

\* an undisturbed real-edit cycle has returned with symbols added, deleted and
\* affected by the deletion, and an added variable on a changed line was
\* taken out of the modified ones
C36_Witness ==
    /\ clean
    /\ hpc = "returned"
    /\ h.branch = "edit"
    /\ h.added_vars # {}
    /\ h.deleted_vars # {}
    /\ h.affected_funcs_del # {}
    /\ AnalyzeFileChanges(h.file_graph, h.new_file_lines, h.changed_lines).vars
          \cap h.added_vars # {}

\* the call reads the content that the last reorder or real-edit call for the
\* same path read and has returned from
SameContentAgain ==
    /\ h.last.branch \in {"reorder", "edit"}
    /\ h.last.path = hpath
    /\ fs[hpath] = [exists |-> TRUE, lines |-> h.last.lines]

\* C37: a call of handle_change that finds the file with the content a
\* completed reorder or real-edit call for it has read takes the no-change
\* branch at lines 40-44, and that branch returns with the Graph Store and the
\* line-snapshot store as they were when the call began.
C37_IdempotentPerContent ==
    /\ [][(hpc = "lines" /\ hpc' # "lines" /\ SameContentAgain)
          => /\ h'.branch = "no change"
             /\ hpc' = "returned"
             /\ store' = store
             /\ store = h.full_project_graph
             /\ line_cache' = line_cache]_vars
    /\ [][(hpc = "returned" /\ h.branch = "no change" /\ hpc' # "returned")
          => /\ hpc' = "idle"
             /\ store' = store
             /\ store = h.full_project_graph
             /\ line_cache' = line_cache]_vars

\* a second call after a real-edit call, on the content that call read, has
\* returned through the no-change branch
C37_Witness ==
    /\ hpc = "returned"
    /\ h.branch = "no change"
    /\ h.last.branch = "edit"
    /\ h.last.path = hpath
    /\ fs[hpath] = [exists |-> TRUE, lines |-> h.last.lines]
    /\ line_cache[hpath] = h.last.lines
    /\ store = h.full_project_graph

====
